---- MODULE Spec2Model ----
(***************************************************************************)
(* ResumeAI backend: the callable function analyzeResume and the resume   *)
(* extractor (extractResumeText, parseResume, extractFromStorage).         *)
(*                                                                         *)
(* Texts are TLA+ strings, handled character by character with Len,        *)
(* SubSeq and \o, so that tokenisation, trimming, lower-casing and         *)
(* substring search are computed the way the JavaScript code computes      *)
(* them.  A JavaScript value that may or may not be a string is a record   *)
(* [t |-> typeof, v |-> text].                                             *)
(***************************************************************************)
EXTENDS Integers, Sequences, FiniteSets, TLC

(***************************************************************************)
(* Bounds of the model.                                                    *)
(***************************************************************************)
NumReqs == 2
MaxTime == 1
NumCalls == 2
\* the lines of an extracted text, and the runs of the normalizer on a text
MaxLines == 3
MaxPasses == 2

Reqs == 1..NumReqs
Calls == 1..NumCalls

(***************************************************************************)
(* State.                                                                  *)
(***************************************************************************)
VARIABLES
    strategy,       \* which analyzeResume.js is deployed: "heuristic" or "llm"
    request,        \* request[r]: the callable request of call r
    pc,             \* pc[r]: "idle", "called", "delay", "saving", "openai", "returned", "failed"
    error,          \* error[r]: the HttpsError call r was rejected with
    dynamicResult,  \* dynamicResult[r]: the analysis computed by call r
    finalResponse,  \* finalResponse[r]: the response object of call r
    analysisData,   \* analysisData[r]: the record call r hands to Firestore
    analyses,       \* the documents of the Firestore collection 'analyses'
    now,            \* the clock read by new Date() and by the Firestore server
    completion,     \* completion[r]: what the OpenAI call of call r produced
    call,           \* call[c]: kind and arguments of call c of the resume extractor
    xpc,            \* xpc[c]: "idle", "called", "downloading", "extracting", "unlinking",
                    \*         "updating", "cleanup", "resolved", "rejected"
    proc,           \* proc[c]: the python process spawned by call c
    promise,        \* promise[c]: the promise returned by extractResumeText to call c
    xresult,        \* xresult[c]: the value call c resolved with
    xerror,         \* xerror[c]: the error call c rejected with, or the one it holds
    files,          \* the local file system: the temp directory and the upload directory
    resumes,        \* the documents of the Firestore collection 'resumes'
    unlinks,        \* unlinks[c]: how many times call c has called fs.unlink
    results,        \* results[c]: the results array of batchExtractResumes in call c
    analysis,       \* analysis[c]: what analyzeWithOpenAI returned to call c
    ntext,          \* the text the normalizer holds: extracted, then normalized
    npass,          \* how many times the normalization pipeline was run on it
    nfirst          \* the output of the first run

\* the state of the resume extractor
xvars == <<call, xpc, proc, promise, xresult, xerror, files, resumes, unlinks, results, analysis>>

\* the state of analyzeResume
avars == <<strategy, request, pc, error, dynamicResult, finalResponse, analysisData, analyses, now,
           completion>>

\* the state of the text normalizer
nvars == <<ntext, npass, nfirst>>

vars == <<avars, xvars, nvars>>

(***************************************************************************)
(* JavaScript strings.                                                     *)
(***************************************************************************)
Min(a, b) == IF a <= b THEN a ELSE b
Max(a, b) == IF a >= b THEN a ELSE b

CharAt(s, i) == SubSeq(s, i, i)

LowerAlpha == "abcdefghijklmnopqrstuvwxyz"
UpperAlpha == "ABCDEFGHIJKLMNOPQRSTUVWXYZ"

CharsOf(s) == {CharAt(s, i) : i \in 1..Len(s)}

LowerChars == CharsOf(LowerAlpha)
UpperChars == CharsOf(UpperAlpha)

\* \w of the regular expressions: [A-Za-z0-9_]
WordChars == LowerChars \cup UpperChars \cup CharsOf("0123456789_")
IsWordChar(c) == c \in WordChars

\* the white space String.prototype.trim removes and \s matches: space, tab,
\* line feed, form feed, carriage return, then, each written as the character
\* itself, the vertical tab (U+000B), the no-break space (U+00A0), the ogham
\* space mark (U+1680) and the byte order mark (U+FEFF); the rest of it
\* (U+2000 to U+200A, U+2028, U+2029, U+202F, U+205F, U+3000) cannot be
\* written in a string here, so that no text of the model holds one of them
WhiteSpace == {" ", "\t", "\n", "\f", "\r", "", " ", " ", "﻿"}

AlphaIndex(alpha, c) == CHOOSE i \in 1..Len(alpha) : CharAt(alpha, i) = c

ToLowerChar(c) ==
    IF c \in UpperChars THEN CharAt(LowerAlpha, AlphaIndex(UpperAlpha, c)) ELSE c

ToUpperChar(c) ==
    IF c \in LowerChars THEN CharAt(UpperAlpha, AlphaIndex(LowerAlpha, c)) ELSE c

\* s.toLowerCase(), over the ASCII letters
RECURSIVE toLowerCase(_)
toLowerCase(s) ==
    IF Len(s) = 0 THEN ""
    ELSE IF Len(s) = 1 THEN ToLowerChar(s)
    ELSE LET h == Len(s) \div 2
         IN  toLowerCase(SubSeq(s, 1, h)) \o toLowerCase(SubSeq(s, h + 1, Len(s)))

\* s.trim()
RECURSIVE TrimStartIndex(_, _)
TrimStartIndex(s, i) ==
    IF i <= Len(s) /\ CharAt(s, i) \in WhiteSpace THEN TrimStartIndex(s, i + 1) ELSE i

RECURSIVE TrimEndIndex(_, _)
TrimEndIndex(s, j) ==
    IF j >= 1 /\ CharAt(s, j) \in WhiteSpace THEN TrimEndIndex(s, j - 1) ELSE j

trim(s) == SubSeq(s, TrimStartIndex(s, 1), TrimEndIndex(s, Len(s)))

\* s.includes(sub)
includes(s, sub) ==
    \E i \in 1..(Len(s) - Len(sub) + 1) : SubSeq(s, i, i + Len(sub) - 1) = sub

\* s.substring(0, n)
substring0(s, n) == SubSeq(s, 1, Min(n, Len(s)))

SetMin(S) == CHOOSE x \in S : \A y \in S : x <= y

\* s.split('\n')[0]
FirstLine(s) ==
    LET breaks == {i \in 1..Len(s) : CharAt(s, i) = "\n"}
    IN  IF breaks = {} THEN s ELSE SubSeq(s, 1, SetMin(breaks) - 1)

\* k.charAt(0).toUpperCase() + k.slice(1)
Capitalize(k) ==
    IF k = "" THEN "" ELSE ToUpperChar(CharAt(k, 1)) \o SubSeq(k, 2, Len(k))

\* the elements of a set of integers in increasing order
RECURSIVE Ascending(_)
Ascending(S) ==
    IF S = {} THEN <<>> ELSE <<SetMin(S)>> \o Ascending(S \ {SetMin(S)})

\* variant: the words of at least 3 word characters
MatchWords4_Min3(s) ==
    LET n      == Len(s)
        isWord == [i \in 1..n |-> IsWordChar(CharAt(s, i))]
        starts == {i \in 1..n : isWord[i] /\ (i = 1 \/ ~isWord[i - 1])}
        ends   == {j \in 1..n : isWord[j] /\ (j = n \/ ~isWord[j + 1])}
        EndOf(i) == SetMin({j \in ends : j >= i})
        long   == {i \in starts : EndOf(i) - i + 1 >= 3}
        order  == Ascending(long)
    IN  [k \in 1..Len(order) |-> SubSeq(s, order[k], EndOf(order[k]))]

\* s.match(/\b\w{4,}\b/g) || []  : the maximal runs of word characters that
\* are at least 4 characters long, in order of occurrence
MatchWords4(s) ==
    LET n      == Len(s)
        isWord == [i \in 1..n |-> IsWordChar(CharAt(s, i))]
        starts == {i \in 1..n : isWord[i] /\ (i = 1 \/ ~isWord[i - 1])}
        ends   == {j \in 1..n : isWord[j] /\ (j = n \/ ~isWord[j + 1])}
        EndOf(i) == SetMin({j \in ends : j >= i})
        long   == {i \in starts : EndOf(i) - i + 1 >= 4}
        order  == Ascending(long)
    IN  [k \in 1..Len(order) |-> SubSeq(s, order[k], EndOf(order[k]))]

(***************************************************************************)
(* JavaScript arrays.                                                      *)
(***************************************************************************)
Range(q) == {q[i] : i \in 1..Len(q)}

\* arr.includes(x)
arrIncludes(q, x) == x \in Range(q)

\* arr.map(k => k.charAt(0).toUpperCase() + k.slice(1))
CapitalizeAll(q) == [i \in 1..Len(q) |-> Capitalize(q[i])]

\* arr.map(k => k.toLowerCase())
LowerCaseAll(q) == [i \in 1..Len(q) |-> toLowerCase(q[i])]

\* Array.from(new Set(q)): the distinct elements in order of first insertion
RECURSIVE UniqueInOrder(_, _)
UniqueInOrder(q, seen) ==
    IF q = <<>> THEN <<>>
    ELSE IF Head(q) \in seen THEN UniqueInOrder(Tail(q), seen)
         ELSE <<Head(q)>> \o UniqueInOrder(Tail(q), seen \cup {Head(q)})

\* arr.slice(0, n)
slice0(q, n) == SubSeq(q, 1, Min(n, Len(q)))

\* arr.join(sep)
RECURSIVE join(_, _)
join(q, sep) ==
    IF q = <<>> THEN ""
    ELSE IF Len(q) = 1 THEN q[1]
         ELSE q[1] \o sep \o join(Tail(q), sep)

(***************************************************************************)
(* JavaScript values of request.data.                                      *)
(***************************************************************************)
Str(s) == [t |-> "string", v |-> s]
Undefined == [t |-> "undefined", v |-> ""]
Num42 == [t |-> "number", v |-> "42"]

\* !x
Falsy(x) == x.t = "undefined" \/ (x.t = "string" /\ x.v = "")

(***************************************************************************)
(* The heuristic analyzeResumeHandler: keyword and section scoring.        *)
(***************************************************************************)
commonTechKeywords ==
    << "JavaScript", "React", "Node.js", "Python", "Java", "SQL", "Git",
       "Cloud", "AWS", "Docker", "Kubernetes", "TypeScript", "HTML", "CSS",
       "Agile", "DevOps", "CI/CD", "API", "REST", "GraphQL", "Machine Learning" >>

\* commonTechKeywords.map(k => k.toLowerCase())
commonTechKeywordsLower == LowerCaseAll(commonTechKeywords)

jdWordsOf(jobDescription) == MatchWords4(toLowerCase(jobDescription))
resumeWordsOf(resumeText) == MatchWords4(toLowerCase(resumeText))

\* variant: the filtered words without the Set
potentialKeywordsOf_NoSet(jdWords) ==
    SelectSeq(jdWords, LAMBDA w : arrIncludes(commonTechKeywordsLower, w))

\* Array.from(new Set([...jdWords.filter(w => vocabulary.includes(w))]))
potentialKeywordsOf(jdWords) ==
    UniqueInOrder(SelectSeq(jdWords, LAMBDA w : arrIncludes(commonTechKeywordsLower, w)), {})

matchedKeywordsOf(potentialKeywords, resumeWords) ==
    SelectSeq(potentialKeywords, LAMBDA kw : arrIncludes(resumeWords, kw))

\* variant: the missing keywords taken over the whole vocabulary
missingKeywordsOf_OverVocabulary(potentialKeywords, resumeWords) ==
    SelectSeq(commonTechKeywordsLower, LAMBDA kw : ~arrIncludes(resumeWords, kw))

missingKeywordsOf(potentialKeywords, resumeWords) ==
    SelectSeq(potentialKeywords, LAMBDA kw : ~arrIncludes(resumeWords, kw))

\* variant: the first three missing keywords, as in the suggestion text
weakKeywordsOf_Three(missingKeywords) == slice0(missingKeywords, 3)

\* missingKeywords.slice(0, 2)
weakKeywordsOf(missingKeywords) == slice0(missingKeywords, 2)

sections ==
    [ experience |-> <<"experience", "work history", "employment">>,
      skills     |-> <<"skills", "technologies", "competencies">>,
      education  |-> <<"education", "academic", "degree">>,
      projects   |-> <<"projects", "portfolio">> ]

\* sections.X.some(s => resumeFullText.includes(s))
SectionPresent(names, resumeFullText) ==
    \E i \in 1..Len(names) : includes(resumeFullText, names[i])

\* the presence-based section values, before scaling
\* variant: a detected experience section valued 20
ExperienceValue_Low(present) == IF present THEN 20 ELSE 5
ExperienceValue(present) == IF present THEN 25 ELSE 5
\* variant: a skills value above the 40 points of the section
SkillsValue_Raised(present) == IF present THEN 45 ELSE 10
SkillsValue(present)     == IF present THEN 35 ELSE 10
\* variant: a detected projects section valued 30
ProjectsValue_Raised(present) == IF present THEN 30 ELSE 5
ProjectsValue(present)   == IF present THEN 18 ELSE 5
\* variant: the threshold reached with 5 matched keywords
RoleAlignmentValue_AtLeast5(nMatched) == IF nMatched >= 5 THEN 10 ELSE 5
RoleAlignmentValue(nMatched) == IF nMatched > 5 THEN 10 ELSE 5

\* variant: an education section counts as experience
sectionScoresOf_EducationCounted(resumeFullText, nMatched) ==
    [ experience    |-> ExperienceValue(SectionPresent(sections.experience, resumeFullText)
                                           \/ SectionPresent(sections.education, resumeFullText)),
      skills        |-> SkillsValue(SectionPresent(sections.skills, resumeFullText)),
      projects      |-> ProjectsValue(SectionPresent(sections.projects, resumeFullText)),
      roleAlignment |-> RoleAlignmentValue(nMatched) ]

sectionScoresOf(resumeFullText, nMatched) ==
    [ experience    |-> ExperienceValue(SectionPresent(sections.experience, resumeFullText)),
      skills        |-> SkillsValue(SectionPresent(sections.skills, resumeFullText)),
      projects      |-> ProjectsValue(SectionPresent(sections.projects, resumeFullText)),
      roleAlignment |-> RoleAlignmentValue(nMatched) ]

\* Math.round of the non-negative rational n / d: nearest integer, ties upwards
RoundHalfUp(n, d) == (2 * n + d) \div (2 * d)

\* variant: no neutral default when no keyword was extracted
keywordScoreOf_ZeroDefault(nMatched, nPotential) ==
    IF nPotential > 0 THEN <<nMatched * 40, nPotential>> ELSE <<0, 1>>

\* keywordScore, a double in the code, as the fraction <<numerator, denominator>>
keywordScoreOf(nMatched, nPotential) ==
    IF nPotential > 0 THEN <<nMatched * 40, nPotential>> ELSE <<20, 1>>

baseSectionScoreOf(ss) == ss.experience + ss.skills + ss.projects + ss.roleAlignment

\* variant: a score that grows with the number of analyses stored so far
finalAtsScoreOf_History(nMatched, nPotential, ss) ==
    LET ks == keywordScoreOf(nMatched, nPotential)
        b  == baseSectionScoreOf(ss)
    IN  Min(RoundHalfUp(ks[1] * 5 + 3 * b * ks[2], 5 * ks[2]) + Len(analyses), 98)

\* Math.min(Math.round(keywordScore + (baseSectionScore * 0.6)), 98).
\* For every count of keywords up to Len(commonTechKeywords) and every base
\* score up to 100 the double sum rounds as the exact sum does.
finalAtsScoreOf(nMatched, nPotential, ss) ==
    LET ks == keywordScoreOf(nMatched, nPotential)
        b  == baseSectionScoreOf(ss)
    IN  Min(RoundHalfUp(ks[1] * 5 + 3 * b * ks[2], 5 * ks[2]), 98)

\* The pairs <<value, score>> for which the double value * (score / 100) falls
\* just below the tie value + 0.5 of the exact product: 25 * (58 / 100) is
\* 14.499999999999998 in IEEE-754 double arithmetic, which Math.round takes
\* to 14.  Every other product of a section value and a score in 0..100
\* rounds as the exact product does.
DoubleBelowTie == {<<25, 58>>}

\* variant: Math.floor in place of Math.round
ScaledScore_Truncated(value, finalAtsScore) == (value * finalAtsScore) \div 100

\* Math.round(value * (finalAtsScore / 100))
ScaledScore(value, finalAtsScore) ==
    IF <<value, finalAtsScore>> \in DoubleBelowTie
    THEN (value * finalAtsScore) \div 100
    ELSE RoundHalfUp(value * finalAtsScore, 100)

improvementSuggestionsOf(missingKeywords, ss) ==
    << "Increase your score by adding these missing keywords: "
           \o join(slice0(missingKeywords, 3), ", "),
       IF ss.experience < 20
       THEN "Your experience section seems weak or missing. Add more professional history."
       ELSE "Strengthen your experience with more quantifiable metrics.",
       IF ss.projects < 10
       THEN "Add a \"Projects\" section to showcase practical applications of your skills."
       ELSE "Good use of projects to demonstrate competency.",
       "Ensure your contact information is at the very top for better parsing." >>

optimizedBulletsConst ==
    << "Optimized existing experience bullet to include keywords and metrics",
       "Rewrote summary to better align with the job requirements",
       "Formatted skills section for better ATS readability" >>

dynamicResultOf(resumeText, jobDescription) ==
    LET jdWords           == jdWordsOf(jobDescription)
        resumeWords       == resumeWordsOf(resumeText)
        resumeFullText    == toLowerCase(resumeText)
        potentialKeywords == potentialKeywordsOf(jdWords)
        matchedKeywords   == matchedKeywordsOf(potentialKeywords, resumeWords)
        missingKeywords   == missingKeywordsOf(potentialKeywords, resumeWords)
        ss                == sectionScoresOf(resumeFullText, Len(matchedKeywords))
        finalAtsScore     == finalAtsScoreOf(Len(matchedKeywords), Len(potentialKeywords), ss)
    IN  [ atsScore         |-> finalAtsScore,
          requiredKeywords |-> CapitalizeAll(potentialKeywords),
          matchedKeywords  |-> CapitalizeAll(matchedKeywords),
          missingKeywords  |-> CapitalizeAll(missingKeywords),
          weakKeywords     |-> CapitalizeAll(weakKeywordsOf(missingKeywords)),
          sectionScores    |->
              [ skills        |-> ScaledScore(ss.skills, finalAtsScore),
                experience    |-> ScaledScore(ss.experience, finalAtsScore),
                projects      |-> ScaledScore(ss.projects, finalAtsScore),
                roleAlignment |-> ss.roleAlignment ],
          improvementSuggestions |-> improvementSuggestionsOf(missingKeywords, ss),
          optimizedBullets |-> optimizedBulletsConst ]

(***************************************************************************)
(* Authentication check and input validation of the two                    *)
(* analyzeResumeHandler implementations.  Each returns the HttpsError      *)
(* thrown, or NoError.                                                     *)
(***************************************************************************)
NoError == [code |-> "none", message |-> ""]
HttpsError(code, message) == [code |-> code, message |-> message]

\* variant: the request is tested instead of its auth context
AuthError_AnyRequest(req) ==
    IF req = <<>>
    THEN HttpsError("unauthenticated", "You must be logged in to analyze resumes")
    ELSE NoError

\* if (!request.auth) throw new HttpsError('unauthenticated', ...)
AuthError(req) ==
    IF req.auth = ""
    THEN HttpsError("unauthenticated", "You must be logged in to analyze resumes")
    ELSE NoError

\* heuristic handler: trimmed resume text of at least 50 characters and
\* trimmed job description of at least 20 characters, no upper limit
HeuristicValidationError(data) ==
    IF Falsy(data.resumeText) \/ data.resumeText.t # "string"
          \/ Len(trim(data.resumeText.v)) < 50
    THEN HttpsError("invalid-argument", "Resume text is missing or too short.")
    ELSE IF Falsy(data.jobDescription) \/ data.jobDescription.t # "string"
               \/ Len(trim(data.jobDescription.v)) < 20
         THEN HttpsError("invalid-argument", "Job description is missing or too short.")
         ELSE NoError

\* LLM-backed handler
LLMValidationError(data) ==
    IF Falsy(data.resumeText) \/ data.resumeText.t # "string"
    THEN HttpsError("invalid-argument", "Resume text is required and must be a string")
    ELSE IF Len(trim(data.resumeText.v)) < 100
    THEN HttpsError("invalid-argument", "Resume text is too short (minimum 100 characters)")
    ELSE IF Len(data.resumeText.v) > 50000
    THEN HttpsError("invalid-argument", "Resume text is too long (maximum 50,000 characters)")
    ELSE IF Falsy(data.jobDescription) \/ data.jobDescription.t # "string"
    THEN HttpsError("invalid-argument", "Job description is required and must be a string")
    ELSE IF Len(trim(data.jobDescription.v)) < 50
    THEN HttpsError("invalid-argument", "Job description is too short (minimum 50 characters)")
    ELSE IF Len(data.jobDescription.v) > 20000
    THEN HttpsError("invalid-argument", "Job description is too long (maximum 20,000 characters)")
    ELSE NoError

(***************************************************************************)
(* The response and the record handed to Firestore.                        *)
(***************************************************************************)
None == [none |-> TRUE]
IsSome(x) == "none" \notin DOMAIN x

\* resumeId || null
OrNull(x) == IF Falsy(x) THEN "null" ELSE x.v

\* { success: true, ...dynamicResult, metadata: {...} }: a later key overrides
\* an earlier one, and f @@ g keeps f where both are defined
finalResponseOf(req, result, t) ==
    [metadata |->
        [ userId     |-> req.auth,
          resumeId   |-> OrNull(req.data.resumeId),
          analyzedAt |-> t,
          model      |-> "dynamic-heuristic-engine",
          \* the note starts with a rocket (U+1F680), written here as its
          \* JavaScript escape: a string of the module is ASCII
          note       |-> "\\uD83D\\uDE80 This score is dynamically calculated based on keyword density and section analysis." ]]
    @@ result @@ [success |-> TRUE]

\* variant: the name of a re-analysis is left without its mark
resumeNameOf_NoSuffix(resumeText, resumeId) ==
    LET first == substring0(trim(FirstLine(resumeText)), 50)
    IN  IF first = "" THEN "Resume" ELSE first

resumeNameOf(resumeText, resumeId) ==
    LET first == substring0(trim(FirstLine(resumeText)), 50)
        name  == IF first = "" THEN "Resume" ELSE first
    IN  IF Falsy(resumeId) THEN name ELSE name \o " (Edited)"

jobTitleOf(jobDescription) ==
    LET jdWords == jdWordsOf(jobDescription)
    IN  IF Len(jdWords) > 0 THEN Capitalize(jdWords[1]) ELSE "Target Role"

\* variant: the record keeps the displayed skills score as its score
analysisDataOf_SkillsScore(req, result, response) ==
    [ userId           |-> req.auth,
      resumeName       |-> resumeNameOf(req.data.resumeText.v, req.data.resumeId),
      jobTitle         |-> jobTitleOf(req.data.jobDescription.v),
      company          |-> "Target Company",
      atsScore         |-> result.sectionScores.skills,
      result           |-> result,
      metadata         |-> response.metadata,
      isReAnalysis     |-> ~Falsy(req.data.resumeId),
      originalResumeId |-> OrNull(req.data.resumeId) ]

analysisDataOf(req, result, response) ==
    [ userId           |-> req.auth,
      resumeName       |-> resumeNameOf(req.data.resumeText.v, req.data.resumeId),
      jobTitle         |-> jobTitleOf(req.data.jobDescription.v),
      company          |-> "Target Company",
      atsScore         |-> result.atsScore,
      result           |-> result,
      metadata         |-> response.metadata,
      isReAnalysis     |-> ~Falsy(req.data.resumeId),
      originalResumeId |-> OrNull(req.data.resumeId) ]

(***************************************************************************)
(* The LLM-backed analyzeResumeHandler: what the OpenAI call can produce.  *)
(***************************************************************************)
requiredFields ==
    << "atsScore", "requiredKeywords", "matchedKeywords", "missingKeywords",
       "weakKeywords", "sectionScores", "improvementSuggestions", "optimizedBullets" >>

LLMObject(ats, sk, ex, pr, ro) ==
    [ atsScore               |-> ats,
      requiredKeywords       |-> <<"React", "Docker">>,
      matchedKeywords        |-> <<"React">>,
      missingKeywords        |-> <<"Docker">>,
      weakKeywords           |-> <<>>,
      sectionScores          |-> [skills |-> sk, experience |-> ex, projects |-> pr, roleAlignment |-> ro],
      improvementSuggestions |-> <<"Add Docker to the skills section">>,
      optimizedBullets       |-> <<"Led the migration of 12 services">> ]

\* an object without the field optimizedBullets
LLMObjectMissingField ==
    [ f \in (DOMAIN LLMObject(50, 20, 15, 10, 5)) \ {"optimizedBullets"} |->
          LLMObject(50, 20, 15, 10, 5)[f] ]

\* outcomes of openai.chat.completions.create and of the content it returns
LLMOutcomes ==
    { [kind |-> "thrown", status |-> 401, code |-> "", message |-> "Incorrect API key"],
      [kind |-> "thrown", status |-> 429, code |-> "", message |-> "Rate limit reached"],
      [kind |-> "thrown", status |-> 0, code |-> "ETIMEDOUT", message |-> "timed out"],
      [kind |-> "thrown", status |-> 0, code |-> "ECONNREFUSED", message |-> "refused"],
      [kind |-> "thrown", status |-> 500, code |-> "", message |-> "server error"],
      [kind |-> "thrown", status |-> 0, code |-> "", message |-> ""],
      [kind |-> "content", json |-> FALSE, obj |-> None],
      [kind |-> "content", json |-> TRUE, obj |-> LLMObject(72, 30, 22, 14, 6)],
      [kind |-> "content", json |-> TRUE, obj |-> LLMObject(40, 0, 20, 15, 5)],
      [kind |-> "content", json |-> TRUE, obj |-> LLMObject(20, 10, 10, 0, 0)],
      [kind |-> "content", json |-> TRUE, obj |-> LLMObject(150, 60, 45, 30, 15)],
      [kind |-> "content", json |-> TRUE, obj |-> LLMObjectMissingField] }

\* the error the try block (parse and validate) throws, "" when it throws none
LLMShapeErrorMessage(content) ==
    IF ~content.json THEN "Failed to parse AI response. Please try again."
    ELSE LET missing == SelectSeq(requiredFields, LAMBDA f : f \notin DOMAIN content.obj)
         IN  IF missing # <<>> THEN "AI response missing required field: " \o missing[1]
             ELSE LET ss == content.obj.sectionScores
                  IN  IF ss.skills = 0 \/ ss.experience = 0 \/ ss.projects = 0
                            \/ ss.roleAlignment = 0
                      THEN "Invalid section scores in AI response"
                      ELSE ""

\* the catch block: every error of the try block, the HttpsErrors thrown by
\* the parse and the validation included, is translated here
LLMCatch(status, code, message) ==
    IF status = 401 THEN HttpsError("internal", "OpenAI API key is invalid")
    ELSE IF status = 429
         THEN HttpsError("resource-exhausted",
                         "API rate limit exceeded. Please try again in a moment.")
    ELSE IF code = "ETIMEDOUT" \/ code = "ECONNREFUSED"
         THEN HttpsError("unavailable", "OpenAI service is temporarily unavailable")
    ELSE HttpsError("internal",
             "Analysis failed: " \o (IF message = "" THEN "Unknown error" ELSE message))

\* the error of a call whose OpenAI outcome is o; NoError when it succeeds
LLMError(o) ==
    IF o.kind = "thrown" THEN LLMCatch(o.status, o.code, o.message)
    ELSE IF LLMShapeErrorMessage(o) # ""
         \* an HttpsError has the code 'internal', which is none of the codes tested
         THEN LLMCatch(0, "internal", LLMShapeErrorMessage(o))
         ELSE NoError

llmResponseOf(req, analysisResult, t) ==
    [metadata |->
        [ userId     |-> req.auth,
          resumeId   |-> OrNull(req.data.resumeId),
          analyzedAt |-> t,
          model      |-> "gpt-4-turbo-preview" ]]
    @@ analysisResult @@ [success |-> TRUE]

(***************************************************************************)
(* Requests.                                                               *)
(***************************************************************************)
\* s followed by as many copies of the character c as it takes to reach length n
RECURSIVE PadTo(_, _, _)
PadTo(s, n, c) == IF Len(s) >= n THEN s ELSE PadTo(s \o c, n, c)

RFull   == "Jane Doe\nExperience: built JavaScript, React, Python, Java apps.\nSkills: Cloud, Docker, Kubernetes, TypeScript.\nProjects and Education: degree."
RHalf   == "Experience with Python and docker in cloud projects over many years of work."

JFive   == "Wanted: Java, Python, React, Docker and Cloud engineer. SQL, Git, AWS a plus."

ResumeValues ==
    LET ROne == "John Roe\nWork History at a bank. Technologies: Java. Portfolio online, academic record."
        RNone == "Seasoned builder who ships reliable things on time, every single time."
        RPadded == "   \t Short resume text with React.                \n\n"
        R49 == PadTo("Skills: Java, React. Employment at Acme", 49, ".")
        R50 == PadTo("Skills: Java, React. Employment at Acme", 50, ".")
        R99 == PadTo("Experience in Java and Python. Skills: Docker. Projects: many", 99, ".")
        R100 == PadTo("Experience in Java and Python. Skills: Docker. Projects: many", 100, ".")
        \* 50 characters of which 11 are the form feeds of page breaks
        RFeeds == PadTo("Skills: Java, React. Employment at Acme", 50, "\f")
        \* the same with vertical tabs (U+000B)
        RTabs == PadTo("Skills: Java, React. Employment at Acme", 50, "")
    IN
    {Str(RFeeds), Str(RTabs), Str(RFull), Str(ROne), Str(RHalf), Str(RNone), Str(RPadded), Str(R49), Str(R50),
     Str(R99), Str(R100), Str(""), Undefined, Num42}

JobValues ==
    LET JNone == "We are hiring a person for our team."
        JShort == "React developer"
        J19 == PadTo("React and Java", 19, "!")
        J20 == PadTo("React and Java", 20, "!")
        JFeeds == PadTo("React and Java", 20, "\f")
        \* 20 characters of which 6 are no-break spaces (U+00A0)
        JSpaces == PadTo("React and Java", 20, " ")
        JSix == "Wanted: Java, Python, React, Docker, Kubernetes and Cloud engineer."
        JDup == "JAVA java Java! REST api, rest; Node.js, HTML/CSS, CI/CD, Machine Learning, GraphQL graphql"
        JEight == "TypeScript Kubernetes Docker Cloud Java Python React JavaScript developer needed"
    IN
    {Str(JFeeds), Str(JSpaces), Str(JNone), Str(JShort), Str(J19), Str(J20), Str(JFive), Str(JSix), Str(JDup),
     Str(JEight), Undefined}

ResumeIdValues == {Undefined, Str(""), Str("res1")}

AllRequests ==
    \* request.auth: the uid of the caller, "" when the call carries no auth context
    [ auth : {"", "u1"},
      data : [resumeText : ResumeValues, jobDescription : JobValues, resumeId : ResumeIdValues] ]

Request(auth, resumeText, jobDescription, resumeId) ==
    [ auth |-> auth,
      data |-> [resumeText |-> resumeText, jobDescription |-> jobDescription,
                resumeId |-> resumeId] ]

\* the requests of the runs in which several calls are in flight: two callers
\* sending the same texts, one of them as a re-analysis, and a third request
ConcurrentRequests ==
    { Request("u1", Str(RFull), Str(JFive), Undefined),
      Request("u2", Str(RFull), Str(JFive), Str("res1")),
      Request("u2", Str(RHalf), Str(JFive), Undefined) }

NoRequest == [auth |-> "", data |-> [resumeText |-> Undefined, jobDescription |-> Undefined,
                                     resumeId |-> Undefined]]

(***************************************************************************)
(* The resume extractor (resumeExtractor.js): extractResumeText,           *)
(* parseResume and extractFromStorage.                                     *)
(***************************************************************************)
\* text.split(/\s+/).length: one more than the number of runs of white space
wordCountOf(text) ==
    Cardinality({i \in 1..Len(text) :
                    /\ CharAt(text, i) \in WhiteSpace
                    /\ (i = 1 \/ CharAt(text, i - 1) \notin WhiteSpace)}) + 1

\* path.basename(storagePath)
basename(p) ==
    LET others == {i \in 1..Len(p) : CharAt(p, i) # "/"}
        \* trailing separators are ignored: the name ends at the last other character
        end    == IF others = {} THEN 0 ELSE CHOOSE i \in others : \A j \in others : j <= i
        before == {i \in 1..end : CharAt(p, i) = "/"}
        start  == IF before = {} THEN 1
                  ELSE (CHOOSE i \in before : \A j \in before : j <= i) + 1
    IN  IF end = 0 THEN "" ELSE SubSeq(p, start, end)

\* path.join(os.tmpdir(), path.basename(storagePath)), os.tmpdir() being
\* "/tmp" (TMPDIR unset): join skips an empty segment and normalises the
\* result, in which "." names the directory itself and ".." its parent
tempFilePathOf(storagePath) ==
    LET base == basename(storagePath)
    IN  IF base \in {"", "."} THEN "/tmp"
        ELSE IF base = ".." THEN "/"
        ELSE "/tmp" \o "/" \o base

\* outputData.match(/Extracted Text:\n\n([\s\S]+?)\n=+/): the leftmost
\* marker after which some non-empty text is followed by a line of "=", and
\* the shortest such text; <<>> when there is no match
textMatchOf(outputData) ==
    LET marker  == "Extracted Text:\n\n"
        n       == Len(outputData)
        Ends(b) == {e \in b..(n - 2) : SubSeq(outputData, e + 1, e + 2) = "\n="}
        starts  == {i \in 1..(n - Len(marker) + 1) :
                       /\ SubSeq(outputData, i, i + Len(marker) - 1) = marker
                       /\ Ends(i + Len(marker)) # {}}
    IN  IF starts = {} THEN <<>>
        ELSE LET b == SetMin(starts) + Len(marker)
             IN  <<SubSeq(outputData, b, SetMin(Ends(b)))>>

\* the text extractResumeText resolves with when the process closes with code 0
extractedTextOf(outputData) ==
    LET textMatch == textMatchOf(outputData)
    IN  IF textMatch # <<>> /\ textMatch[1] # ""
        THEN trim(textMatch[1])
        ELSE outputData

\* `${code}` of a process exit code
CodeText(code) == SubSeq("0123456789", code + 1, code + 1)

\* the message extractResumeText rejects with when the process closes with
\* another code
extractionFailedMessage(code, errorData) ==
    "Text extraction failed (exit code " \o CodeText(code) \o "): " \o errorData

\* the message extractResumeText rejects with on the 'error' event
startFailedMessage(message) == "Failed to start Python process: " \o message

\* the value parseResume returns
parseResultOf(extractedText) ==
    [ success   |-> TRUE,
      text      |-> extractedText,
      charCount |-> Len(extractedText),
      wordCount |-> wordCountOf(extractedText) ]

\* the error parseResume throws from its catch
parseErrorOf(message) == HttpsError("internal", "Failed to parse resume: " \o message)

(***************************************************************************)
(* The environment of the extractor: what text_extractor.py prints for     *)
(* the documents there are, the bucket and the local files.                *)
(***************************************************************************)
\* what the extraction process does with a document, by where it comes from
Documents ==
    [ origin \in { "resumes/u1/resume.pdf", "resumes/u2/resume.pdf",
                   "resumes/u1/scan.pdf", "/srv/uploads/cv.docx" } |->
        CASE origin = "resumes/u1/resume.pdf" ->
               [ code |-> 0,
                 out  |-> "File: resume.pdf\nExtracted Text:\n\nJane Doe\nSkills: Java\n====\n",
                 err  |-> "" ]
          [] origin = "resumes/u2/resume.pdf" ->
               [ code |-> 0,
                 out  |-> "Extracted Text:\n\n  John Roe \n=\nPython\n==\n",
                 err  |-> "" ]
          [] origin = "resumes/u1/scan.pdf" ->
               [ code |-> 1,
                 out  |-> "",
                 err  |-> "pdfminer.pdfparser.PDFSyntaxError: No /Root object" ]
          [] origin = "/srv/uploads/cv.docx" ->
               [ code |-> 0,
                 out  |-> "Maria Lee\nReact developer\n",
                 err  |-> "" ] ]

\* the process on something that is no document: a partly written file
NoDocument == [code |-> 1, out |-> "", err |-> "ValueError: not a PDF or DOCX document"]

\* the process on a path where there is no file
FileNotFound(path) == [code |-> 2, out |-> "", err |-> "FileNotFoundError: " \o path]

\* the objects of the storage bucket
Bucket == {"resumes/u1/resume.pdf", "resumes/u2/resume.pdf", "resumes/u1/scan.pdf"}

\* the storage paths extractFromStorage is called with: the objects, an
\* object that is not there, and the folder of a user
StoragePaths == Bucket \cup {"resumes/u1/gone.pdf", "resumes/u1/"}

\* the paths of the local file system
FSPaths == {tempFilePathOf(p) : p \in StoragePaths} \cup {"/srv/uploads/cv.docx"}

\* a file: the document it holds and the call that wrote it, 0 for an upload
NoFile == [origin |-> "", by |-> 0]
File(origin, by) == [origin |-> origin, by |-> by]

ReadFile(path) == IF path \in DOMAIN files THEN files[path] ELSE NoFile

\* the run of text_extractor.py on the file at path, as the file is now
RunOn(path) ==
    LET f == ReadFile(path)
    IN  IF f = NoFile THEN FileNotFound(path)
        ELSE IF f.origin \in DOMAIN Documents THEN Documents[f.origin]
        ELSE NoDocument

\* the ids of the documents of 'resumes' the calls name; only the first exists
ResumeDocIds == {"res1", "res9"}

NoDoc == [exists |-> FALSE]

\* a python process: "none", "running", "exited" (its stdout and stderr
\* written, close not yet emitted), "error" (it could not be started),
\* "hung", "closed" (the event was handled)
NoProcess == [state |-> "none", path |-> "", code |-> 0, out |-> "", err |-> ""]

\* spawn('python', [pythonScript, filePath])
Spawned(filePath) == [state |-> "running", path |-> filePath, code |-> 0, out |-> "", err |-> ""]

\* the calls: parseResume(data, context) and extractFromStorage(storagePath)
ParseCall(auth, filePath, resumeId) ==
    [kind |-> "parseResume", auth |-> auth, filePath |-> filePath, resumeId |-> resumeId,
     storagePath |-> "", jobDescription |-> "", filePaths |-> <<>>]

StorageCall(storagePath) ==
    [kind |-> "extractFromStorage", auth |-> "", filePath |-> Undefined, resumeId |-> Undefined,
     storagePath |-> storagePath, jobDescription |-> "", filePaths |-> <<>>]

\* analyzeResumeComplete called by auth ("" without auth context) with data
\* {storagePath, jobDescription}
CompleteCall(auth, storagePath, jobDescription) ==
    [kind |-> "analyzeResumeComplete", auth |-> auth, filePath |-> Undefined,
     resumeId |-> Undefined, storagePath |-> storagePath, jobDescription |-> jobDescription,
     filePaths |-> <<>>]

\* batchExtractResumes(filePaths)
BatchCall(filePaths) ==
    [kind |-> "batchExtractResumes", auth |-> "", filePath |-> Undefined,
     resumeId |-> Undefined, storagePath |-> "", jobDescription |-> "",
     filePaths |-> filePaths]

NoCall == [kind |-> "none", auth |-> "", filePath |-> Undefined, resumeId |-> Undefined,
           storagePath |-> "", jobDescription |-> "", filePaths |-> <<>>]

ExtractorCalls ==
    { ParseCall("", Str("/srv/uploads/cv.docx"), Undefined),
      ParseCall("u1", Undefined, Str("res1")),
      ParseCall("u1", Str("/srv/uploads/cv.docx"), Undefined),
      ParseCall("u1", Str("/srv/uploads/cv.docx"), Str("res1")),
      ParseCall("u1", Str("/srv/uploads/cv.docx"), Str("res9")),
      ParseCall("u1", Str("/srv/uploads/none.pdf"), Str("res1")),
      ParseCall("u1", Str("/tmp/scan.pdf"), Undefined) }
    \cup {StorageCall(p) : p \in StoragePaths}

(***************************************************************************)
(* The resume extractor: initial state and actions.                        *)
(***************************************************************************)
NoPromise == [state |-> "none", value |-> ""]

\* the files and documents there are before any call
InitFiles ==
    [p \in FSPaths |-> IF p = "/srv/uploads/cv.docx" THEN File(p, 0) ELSE NoFile]

InitResumes ==
    [id \in ResumeDocIds |->
        IF id = "res1" THEN [exists |-> TRUE, status |-> "uploaded", extractedText |-> "",
                             parsedAt |-> 0]
        ELSE NoDoc]

ExtractorStateOf(active, calls) ==
    /\ \E made \in [active -> calls] :
          call = [c \in Calls |-> IF c \in active THEN made[c] ELSE NoCall]
    /\ xpc = [c \in Calls |-> IF c \in active THEN "called" ELSE "idle"]
    /\ proc = [c \in Calls |-> NoProcess]
    /\ promise = [c \in Calls |-> NoPromise]
    /\ xresult = [c \in Calls |-> None]
    /\ xerror = [c \in Calls |-> NoError]
    /\ files = InitFiles
    /\ resumes = InitResumes
    /\ unlinks = [c \in Calls |-> 0]
    /\ results = [c \in Calls |-> <<>>]
    /\ analysis = [c \in Calls |-> None]

ExtractorState(active) == ExtractorStateOf(active, ExtractorCalls)

(***************************************************************************)
(* The text normalizer of the extraction service (Text Normalization):    *)
(* five steps in a fixed order, over the lines of the extracted text.      *)
(***************************************************************************)
\* s.upper(), over the ASCII letters
RECURSIVE toUpperCase(_)
toUpperCase(s) ==
    IF Len(s) = 0 THEN ""
    ELSE IF Len(s) = 1 THEN ToUpperChar(s)
    ELSE LET h == Len(s) \div 2
         IN  toUpperCase(SubSeq(s, 1, h)) \o toUpperCase(SubSeq(s, h + 1, Len(s)))

\* the lines of a text
splitLines(text) ==
    LET breaks == Ascending({i \in 1..Len(text) : CharAt(text, i) = "\n"})
        n      == Len(breaks)
        From(k) == IF k = 1 THEN 1 ELSE breaks[k - 1] + 1
        To(k)   == IF k = n + 1 THEN Len(text) ELSE breaks[k] - 1
    IN  [k \in 1..(n + 1) |-> SubSeq(text, From(k), To(k))]

\* step 1: the boilerplate lines, a fixed vocabulary matched on whole lines
BoilerplatePatterns == {"confidential", "private and confidential", "curriculum vitae"}
stripBoilerplate(lines) ==
    SelectSeq(lines, LAMBDA l : toLowerCase(trim(l)) \notin BoilerplatePatterns)

\* step 2: 'Page X of Y' lines and standalone numeric lines
removePageNumbers(lines) ==
    LET IsNumeric(s) == s # "" /\ \A i \in 1..Len(s) : CharAt(s, i) \in CharsOf("0123456789")
        IsPageXofY(t) ==
            /\ Len(t) >= 11
            /\ SubSeq(t, 1, 5) = "page "
            /\ \E k \in 6..(Len(t) - 5) :
                  /\ IsNumeric(SubSeq(t, 6, k))
                  /\ SubSeq(t, k + 1, k + 4) = " of "
                  /\ IsNumeric(SubSeq(t, k + 5, Len(t)))
        IsPageNumber(line) == IsNumeric(trim(line)) \/ IsPageXofY(toLowerCase(trim(line)))
    IN  SelectSeq(lines, LAMBDA l : ~IsPageNumber(l))

\* step 3: a line-leading bullet glyph becomes the canonical marker followed
\* by exactly one space; of the glyph set, the glyphs that are ASCII
BulletGlyphs == {"-", "*"}
CanonicalMarker == "-"
normalizeBullets(lines) ==
    LET normalizeBullet(line) ==
            LET t == trim(line)
            IN  IF t # "" /\ CharAt(t, 1) \in BulletGlyphs
                THEN CanonicalMarker \o " " \o trim(SubSeq(t, 2, Len(t)))
                ELSE line
    IN  [k \in 1..Len(lines) |-> normalizeBullet(lines[k])]

\* step 4: a line that is, trimmed and whatever its case, a section name is
\* upper-cased, and a blank line is inserted before and after it
SectionNames ==
    { "summary", "professional summary", "experience", "work experience", "education",
      "skills", "technical skills", "projects", "certifications", "awards" }
RECURSIVE emphasizeHeadings(_)
emphasizeHeadings(lines) ==
    IF lines = <<>> THEN <<>>
    ELSE (IF toLowerCase(trim(Head(lines))) \in SectionNames THEN <<"", toUpperCase(Head(lines)), "">>
                                    ELSE <<Head(lines)>>)
             \o emphasizeHeadings(Tail(lines))

\* step 5: a run of 3 or more blank lines becomes one blank line, every line
\* is trimmed, and so is the whole document
collapseBlankRuns(lines) ==
    LET n == Len(lines)
        Blank(i) == i \in 1..n /\ trim(lines[i]) = ""
        RunStart(i) == SetMin({j \in 1..i : \A m \in j..i : Blank(m)})
        RunEnd(i)   == CHOOSE j \in i..n :
                          /\ \A m \in i..j : Blank(m)
                          /\ ~Blank(j + 1)
        Kept(i) == \/ ~Blank(i)
                   \/ RunEnd(i) - RunStart(i) + 1 < 3
                   \/ i = RunStart(i)
        order == Ascending({i \in 1..n : Kept(i)})
    IN  [k \in 1..Len(order) |-> lines[order[k]]]
normalizeWhitespace(lines) ==
    LET kept == collapseBlankRuns(lines)
    IN  trim(join([k \in 1..Len(kept) |-> trim(kept[k])], "\n"))

\* normalize(text): the five steps in their order
normalize(text) ==
    normalizeWhitespace(
        emphasizeHeadings(
            normalizeBullets(
                removePageNumbers(
                    stripBoilerplate(splitLines(text))))))

\* the lines extracted texts are made of here
SampleLines ==
    { "Confidential", "Page 1 of 2", "3", "* led a well-known team", "Experience",
      "  skills ", "Seattle, WA", "" }

\* the extracted texts: up to MaxLines lines
RawTexts ==
    {join(q, "\n") : q \in UNION {[1..n -> SampleLines] : n \in 1..MaxLines}}

\* no text in the normalizer
NormalizerIdle ==
    /\ ntext = ""
    /\ npass = 0
    /\ nfirst = ""

(***************************************************************************)
(* Initial states.                                                         *)
(***************************************************************************)
InitState(active, requests) ==
    /\ strategy \in {"heuristic", "llm"}
    /\ \E sent \in [active -> requests] :
          request = [r \in Reqs |-> IF r \in active THEN sent[r] ELSE NoRequest]
    /\ pc = [r \in Reqs |-> IF r \in active THEN "called" ELSE "idle"]
    /\ error = [r \in Reqs |-> NoError]
    /\ dynamicResult = [r \in Reqs |-> None]
    /\ finalResponse = [r \in Reqs |-> None]
    /\ analysisData = [r \in Reqs |-> None]
    /\ analyses = <<>>
    /\ now = 0
    /\ completion = [r \in Reqs |-> None]

\* one call, over all the requests
Init == InitState({1}, AllRequests) /\ ExtractorState({}) /\ NormalizerIdle

\* every call in flight at once
InitConcurrent == InitState(Reqs, ConcurrentRequests) /\ ExtractorState({}) /\ NormalizerIdle

\* no call of analyzeResume
AnalyzerIdle ==
    /\ strategy = "heuristic"
    /\ request = [r \in Reqs |-> NoRequest]
    /\ pc = [r \in Reqs |-> "idle"]
    /\ error = [r \in Reqs |-> NoError]
    /\ dynamicResult = [r \in Reqs |-> None]
    /\ finalResponse = [r \in Reqs |-> None]
    /\ analysisData = [r \in Reqs |-> None]
    /\ analyses = <<>>
    /\ now = 0
    /\ completion = [r \in Reqs |-> None]

\* the calls of the extractor, all in flight
InitExtract == AnalyzerIdle /\ ExtractorState(Calls) /\ NormalizerIdle

(***************************************************************************)
(* The heuristic analyzeResumeHandler.                                     *)
(***************************************************************************)
\* variant: the input is validated after the analysis was computed
HEntry_ValidateAfterScoring(r) ==
    /\ UNCHANGED <<xvars, nvars>>
    /\ strategy = "heuristic"
    /\ pc[r] = "called"
    /\ IF AuthError(request[r]) # NoError
       THEN /\ pc' = [pc EXCEPT ![r] = "failed"]
            /\ error' = [error EXCEPT ![r] = AuthError(request[r])]
            /\ UNCHANGED dynamicResult
       ELSE /\ dynamicResult' = [dynamicResult EXCEPT ![r] =
                     dynamicResultOf(request[r].data.resumeText.v,
                                     request[r].data.jobDescription.v)]
            /\ IF HeuristicValidationError(request[r].data) # NoError
               THEN /\ pc' = [pc EXCEPT ![r] = "failed"]
                    /\ error' = [error EXCEPT ![r] =
                                     HeuristicValidationError(request[r].data)]
               ELSE /\ pc' = [pc EXCEPT ![r] = "delay"]
                    /\ UNCHANGED error
    /\ UNCHANGED <<completion, strategy, request, finalResponse, analysisData, analyses, now>>

\* entry of the handler up to the first await: authentication check, input
\* validation, then the 2 second timer is started
HEntry(r) ==
    /\ UNCHANGED <<xvars, nvars>>
    /\ strategy = "heuristic"
    /\ pc[r] = "called"
    /\ LET e == IF AuthError(request[r]) # NoError THEN AuthError(request[r])
                ELSE HeuristicValidationError(request[r].data)
       IN  IF e # NoError
           THEN /\ pc' = [pc EXCEPT ![r] = "failed"]
                /\ error' = [error EXCEPT ![r] = e]
           ELSE /\ pc' = [pc EXCEPT ![r] = "delay"]
                /\ UNCHANGED error
    /\ UNCHANGED <<completion, strategy, request, dynamicResult, finalResponse, analysisData, analyses, now>>

\* the timer fires: the analysis is computed, the response and the Firestore
\* record are built and db.collection('analyses').add is called
HAnalyze(r) ==
    /\ UNCHANGED <<xvars, nvars>>
    /\ strategy = "heuristic"
    /\ pc[r] = "delay"
    /\ LET result   == dynamicResultOf(request[r].data.resumeText.v,
                                       request[r].data.jobDescription.v)
           response == finalResponseOf(request[r], result, now)
       IN  /\ dynamicResult' = [dynamicResult EXCEPT ![r] = result]
           /\ finalResponse' = [finalResponse EXCEPT ![r] = response]
           /\ analysisData' = [analysisData EXCEPT ![r] =
                                   analysisDataOf(request[r], result, response)]
    /\ pc' = [pc EXCEPT ![r] = "saving"]
    /\ UNCHANGED <<completion, strategy, request, error, analyses, now>>

\* variant: a re-analysis is written over the latest document
HSaved_UpdateLatest(r) ==
    /\ UNCHANGED <<xvars, nvars>>
    /\ strategy = "heuristic"
    /\ pc[r] = "saving"
    /\ LET id  == IF analysisData[r].isReAnalysis /\ Len(analyses) > 0
                  THEN Len(analyses) ELSE Len(analyses) + 1
           doc == [id |-> id, createdAt |-> now, updatedAt |-> now] @@ analysisData[r]
       IN  /\ analyses' = IF id <= Len(analyses)
                          THEN [analyses EXCEPT ![id] = doc]
                          ELSE Append(analyses, doc)
           /\ finalResponse' = [finalResponse EXCEPT ![r] = [analysisId |-> id] @@ @]
    /\ pc' = [pc EXCEPT ![r] = "returned"]
    /\ UNCHANGED <<completion, strategy, request, error, dynamicResult, analysisData, now>>

\* add resolves: the document is in the collection, with the timestamps of the
\* server, and its id is put in the response, which is returned
HSaved(r) ==
    /\ UNCHANGED <<xvars, nvars>>
    /\ strategy = "heuristic"
    /\ pc[r] = "saving"
    /\ LET id == Len(analyses) + 1
       IN  /\ analyses' = Append(analyses,
                  [id |-> id, createdAt |-> now, updatedAt |-> now] @@ analysisData[r])
           /\ finalResponse' = [finalResponse EXCEPT ![r] = [analysisId |-> id] @@ @]
    /\ pc' = [pc EXCEPT ![r] = "returned"]
    /\ UNCHANGED <<completion, strategy, request, error, dynamicResult, analysisData, now>>

\* variant: the rejection of add is thrown to the caller
HSaveFailed_Throws(r) ==
    /\ UNCHANGED <<xvars, nvars>>
    /\ strategy = "heuristic"
    /\ pc[r] = "saving"
    /\ pc' = [pc EXCEPT ![r] = "failed"]
    /\ error' = [error EXCEPT ![r] = HttpsError("internal", "Analysis could not be saved")]
    /\ finalResponse' = [finalResponse EXCEPT ![r] = None]
    /\ UNCHANGED <<completion, strategy, request, dynamicResult, analysisData, analyses, now>>

\* add rejects: the error is logged and the response is returned all the same
HSaveFailed(r) ==
    /\ UNCHANGED <<xvars, nvars>>
    /\ strategy = "heuristic"
    /\ pc[r] = "saving"
    /\ pc' = [pc EXCEPT ![r] = "returned"]
    /\ UNCHANGED <<completion, strategy, request, error, dynamicResult, finalResponse, analysisData,
                   analyses, now>>

(***************************************************************************)
(* The LLM-backed analyzeResumeHandler.                                    *)
(***************************************************************************)
\* entry of the handler up to the await of the OpenAI call
LEntry(r) ==
    /\ UNCHANGED <<xvars, nvars>>
    /\ strategy = "llm"
    /\ pc[r] = "called"
    /\ LET e == IF AuthError(request[r]) # NoError THEN AuthError(request[r])
                ELSE LLMValidationError(request[r].data)
       IN  IF e # NoError
           THEN /\ pc' = [pc EXCEPT ![r] = "failed"]
                /\ error' = [error EXCEPT ![r] = e]
           ELSE /\ pc' = [pc EXCEPT ![r] = "openai"]
                /\ UNCHANGED error
    /\ UNCHANGED <<completion, strategy, request, dynamicResult, finalResponse, analysisData, analyses, now>>

\* the OpenAI call settles: parse, validate, and either throw or return
LCompletion(r) ==
    /\ UNCHANGED <<xvars, nvars>>
    /\ strategy = "llm"
    /\ pc[r] = "openai"
    /\ \E o \in LLMOutcomes :
          /\ IF LLMError(o) # NoError
             THEN /\ pc' = [pc EXCEPT ![r] = "failed"]
                  /\ error' = [error EXCEPT ![r] = LLMError(o)]
                  /\ UNCHANGED finalResponse
             ELSE /\ pc' = [pc EXCEPT ![r] = "returned"]
                  /\ finalResponse' = [finalResponse EXCEPT ![r] =
                                           llmResponseOf(request[r], o.obj, now)]
                  /\ UNCHANGED error
          /\ completion' = [completion EXCEPT ![r] = o]
    /\ UNCHANGED <<strategy, request, dynamicResult, analysisData, analyses, now>>

\* time passes
Tick ==
    /\ UNCHANGED <<xvars, nvars>>
    /\ now < MaxTime
    /\ now' = now + 1
    /\ UNCHANGED <<completion, strategy, request, pc, error, dynamicResult, finalResponse, analysisData,
                   analyses>>

Next ==
    \/ \E r \in Reqs : HEntry(r)
    \/ \E r \in Reqs : HAnalyze(r)
    \/ \E r \in Reqs : HSaved(r)
    \/ \E r \in Reqs : HSaveFailed(r)
    \/ \E r \in Reqs : LEntry(r)
    \/ \E r \in Reqs : LCompletion(r)
    \/ Tick

Spec == Init /\ [][Next]_vars

SpecConcurrent == InitConcurrent /\ [][Next]_vars

\* new Error(message)
Error(message) == [code |-> "Error", message |-> message]

\* how the promise of extractResumeText settles on the event of process p:
\* 'close' with the exit code, or 'error'
SettledBy(p) ==
    IF p.state = "error"
    THEN [state |-> "rejected", value |-> startFailedMessage(p.err)]
    ELSE IF p.code = 0
         THEN [state |-> "resolved", value |-> extractedTextOf(p.out)]
         ELSE [state |-> "rejected", value |-> extractionFailedMessage(p.code, p.err)]

\* the python process of call c reads its file, writes its output and exits
ProcRun(c) ==
    /\ proc[c].state = "running"
    /\ LET o == RunOn(proc[c].path)
       IN  proc' = [proc EXCEPT ![c] = [state |-> "exited", path |-> @.path,
                                        code |-> o.code, out |-> o.out, err |-> o.err]]
    /\ UNCHANGED <<results, analysis, call, xpc, promise, xresult, xerror, files, resumes, unlinks>>
    /\ UNCHANGED <<avars, nvars>>

\* the python process of call c could not be started
ProcStartError(c) ==
    /\ proc[c].state = "running"
    /\ proc' = [proc EXCEPT ![c] = [@ EXCEPT !.state = "error",
                                             !.err = "spawn python ENOENT"]]
    /\ UNCHANGED <<results, analysis, call, xpc, promise, xresult, xerror, files, resumes, unlinks>>
    /\ UNCHANGED <<avars, nvars>>

\* the python process of call c hangs: it neither exits nor fails
ProcHang(c) ==
    /\ proc[c].state = "running"
    /\ proc' = [proc EXCEPT ![c] = [@ EXCEPT !.state = "hung"]]
    /\ UNCHANGED <<results, analysis, call, xpc, promise, xresult, xerror, files, resumes, unlinks>>
    /\ UNCHANGED <<avars, nvars>>

\* parseResume up to its first await: the checks, thrown inside the try and
\* so wrapped by the catch, then extractResumeText spawns the process
PEntry(c) ==
    /\ call[c].kind = "parseResume"
    /\ xpc[c] = "called"
    /\ IF call[c].auth = ""
       THEN /\ xerror' = [xerror EXCEPT ![c] = parseErrorOf("User must be authenticated")]
            /\ xpc' = [xpc EXCEPT ![c] = "rejected"]
            /\ UNCHANGED <<proc, promise>>
       ELSE IF Falsy(call[c].filePath)
       THEN /\ xerror' = [xerror EXCEPT ![c] = parseErrorOf("File path is required")]
            /\ xpc' = [xpc EXCEPT ![c] = "rejected"]
            /\ UNCHANGED <<proc, promise>>
       ELSE /\ proc' = [proc EXCEPT ![c] = Spawned(call[c].filePath.v)]
            /\ promise' = [promise EXCEPT ![c] = [state |-> "pending", value |-> ""]]
            /\ xpc' = [xpc EXCEPT ![c] = "extracting"]
            /\ UNCHANGED xerror
    /\ UNCHANGED <<results, analysis, call, xresult, files, resumes, unlinks>>
    /\ UNCHANGED <<avars, nvars>>

\* the event of the process reaches extractResumeText, whose promise settles,
\* and parseResume goes on: to the catch, to the update of the resume
\* document, or to its return
PExtracted(c) ==
    /\ call[c].kind = "parseResume"
    /\ xpc[c] = "extracting"
    /\ proc[c].state \in {"exited", "error"}
    /\ LET settled == SettledBy(proc[c])
       IN  /\ promise' = [promise EXCEPT ![c] = settled]
           /\ IF settled.state = "rejected"
              THEN /\ xerror' = [xerror EXCEPT ![c] = parseErrorOf(settled.value)]
                   /\ xpc' = [xpc EXCEPT ![c] = "rejected"]
                   /\ UNCHANGED xresult
              ELSE IF Falsy(call[c].resumeId)
              THEN /\ xresult' = [xresult EXCEPT ![c] = parseResultOf(settled.value)]
                   /\ xpc' = [xpc EXCEPT ![c] = "resolved"]
                   /\ UNCHANGED xerror
              ELSE /\ xpc' = [xpc EXCEPT ![c] = "updating"]
                   /\ UNCHANGED <<xresult, xerror>>
    /\ proc' = [proc EXCEPT ![c] = [@ EXCEPT !.state = "closed"]]
    /\ UNCHANGED <<results, analysis, call, files, resumes, unlinks>>
    /\ UNCHANGED <<avars, nvars>>

\* the update of resumes/{resumeId} ends: the document is updated and the
\* result returned, or there is no such document and the catch wraps the error
PUpdated(c) ==
    /\ call[c].kind = "parseResume"
    /\ xpc[c] = "updating"
    /\ LET id == call[c].resumeId.v
       IN  IF id \in DOMAIN resumes /\ resumes[id].exists
           THEN /\ resumes' = [resumes EXCEPT ![id] =
                                  [@ EXCEPT !.extractedText = promise[c].value,
                                            !.parsedAt = now,
                                            !.status = "parsed"]]
                /\ xresult' = [xresult EXCEPT ![c] = parseResultOf(promise[c].value)]
                /\ xpc' = [xpc EXCEPT ![c] = "resolved"]
                /\ UNCHANGED xerror
           ELSE /\ xerror' = [xerror EXCEPT ![c] =
                                 parseErrorOf("5 NOT_FOUND: No document to update: resumes/" \o id)]
                /\ xpc' = [xpc EXCEPT ![c] = "rejected"]
                /\ UNCHANGED <<xresult, resumes>>
    /\ UNCHANGED <<results, analysis, call, proc, promise, files, unlinks>>
    /\ UNCHANGED <<avars, nvars>>

\* the unlink of call c at its temp path: the file is removed, or unlink
\* fails and the file system is as it was; it fails when there is no file
Unlink(c, removed) ==
    /\ unlinks' = [unlinks EXCEPT ![c] = @ + 1]
    /\ removed => files[tempFilePathOf(call[c].storagePath)] # NoFile
    /\ files' = IF removed
                THEN [files EXCEPT ![tempFilePathOf(call[c].storagePath)] = NoFile]
                ELSE files

\* the error of a failed unlink
UnlinkError(path) ==
    IF files[path] = NoFile
    THEN Error("ENOENT: no such file or directory, unlink '" \o path \o "'")
    ELSE Error("EPERM: operation not permitted, unlink '" \o path \o "'")

\* call c runs extractFromStorage: directly, or inside analyzeResumeComplete
UsesStorage(c) == call[c].kind \in {"extractFromStorage", "analyzeResumeComplete"}

\* what call c throws when extractFromStorage throws e: e itself, or the
\* HttpsError of the catch of analyzeResumeComplete
ThrownBy(c, e) ==
    IF call[c].kind = "analyzeResumeComplete" THEN HttpsError("internal", e.message) ELSE e

\* extractFromStorage up to its first await: the download is started
SEntry(c) ==
    /\ call[c].kind = "extractFromStorage"
    /\ xpc[c] = "called"
    /\ xpc' = [xpc EXCEPT ![c] = "downloading"]
    /\ UNCHANGED <<results, analysis, call, proc, promise, xresult, xerror, files, resumes, unlinks>>
    /\ UNCHANGED <<avars, nvars>>

\* the download ends: the object is in the temp file, and extractResumeText
\* spawns the process on it
SDownloaded(c) ==
    /\ UsesStorage(c)
    /\ xpc[c] = "downloading"
    /\ call[c].storagePath \in Bucket
    /\ files' = [files EXCEPT ![tempFilePathOf(call[c].storagePath)] =
                    File(call[c].storagePath, c)]
    /\ proc' = [proc EXCEPT ![c] = Spawned(tempFilePathOf(call[c].storagePath))]
    /\ promise' = [promise EXCEPT ![c] = [state |-> "pending", value |-> ""]]
    /\ xpc' = [xpc EXCEPT ![c] = "extracting"]
    /\ UNCHANGED <<results, analysis, call, xresult, xerror, resumes, unlinks>>
    /\ UNCHANGED <<avars, nvars>>

\* the download fails, with or without a partly written temp file: the catch
\* holds the error and starts its unlink
SDownloadFailed(c) ==
    /\ UsesStorage(c)
    /\ xpc[c] = "downloading"
    /\ call[c].storagePath \notin Bucket
    /\ \E partial \in BOOLEAN :
          files' = IF partial
                   THEN [files EXCEPT ![tempFilePathOf(call[c].storagePath)] =
                            File("partial", c)]
                   ELSE files
    /\ xerror' = [xerror EXCEPT ![c] = Error("No such object: " \o call[c].storagePath)]
    /\ xpc' = [xpc EXCEPT ![c] = "cleanup"]
    /\ UNCHANGED <<results, analysis, call, proc, promise, xresult, resumes, unlinks>>
    /\ UNCHANGED <<avars, nvars>>

\* variant: a failed extraction is thrown without the unlink of the catch
SExtracted_NoCleanup(c) ==
    /\ UsesStorage(c)
    /\ xpc[c] = "extracting"
    /\ proc[c].state \in {"exited", "error"}
    /\ LET settled == SettledBy(proc[c])
       IN  /\ promise' = [promise EXCEPT ![c] = settled]
           /\ IF settled.state = "rejected"
              THEN /\ xerror' = [xerror EXCEPT ![c] = Error(settled.value)]
                   /\ xpc' = [xpc EXCEPT ![c] = "rejected"]
              ELSE /\ xpc' = [xpc EXCEPT ![c] = "unlinking"]
                   /\ UNCHANGED xerror
    /\ proc' = [proc EXCEPT ![c] = [@ EXCEPT !.state = "closed"]]
    /\ UNCHANGED <<results, analysis, call, xresult, files, resumes, unlinks>>
    /\ UNCHANGED <<avars, nvars>>

\* the event of the process reaches extractResumeText, whose promise settles,
\* and extractFromStorage goes on: to the unlink of the try with the text, or
\* to the catch, which holds the error and starts its unlink
SExtracted(c) ==
    /\ UsesStorage(c)
    /\ xpc[c] = "extracting"
    /\ proc[c].state \in {"exited", "error"}
    /\ LET settled == SettledBy(proc[c])
       IN  /\ promise' = [promise EXCEPT ![c] = settled]
           /\ IF settled.state = "rejected"
              THEN /\ xerror' = [xerror EXCEPT ![c] = Error(settled.value)]
                   /\ xpc' = [xpc EXCEPT ![c] = "cleanup"]
              ELSE /\ xpc' = [xpc EXCEPT ![c] = "unlinking"]
                   /\ UNCHANGED xerror
    /\ proc' = [proc EXCEPT ![c] = [@ EXCEPT !.state = "closed"]]
    /\ UNCHANGED <<results, analysis, call, xresult, files, resumes, unlinks>>
    /\ UNCHANGED <<avars, nvars>>

\* the unlink of the try ends: the text is returned, or the unlink failed and
\* the catch holds its error and starts its own unlink
SUnlinked(c) ==
    /\ UsesStorage(c)
    /\ xpc[c] = "unlinking"
    /\ \E removed \in BOOLEAN :
          /\ Unlink(c, removed)
          /\ IF removed
             THEN /\ IF call[c].kind = "extractFromStorage"
                     THEN /\ xresult' = [xresult EXCEPT ![c] = Str(promise[c].value)]
                          /\ xpc' = [xpc EXCEPT ![c] = "resolved"]
                     ELSE /\ xpc' = [xpc EXCEPT ![c] = "analyzing"]
                          /\ UNCHANGED xresult
                  /\ UNCHANGED xerror
             ELSE /\ xerror' = [xerror EXCEPT ![c] =
                                   UnlinkError(tempFilePathOf(call[c].storagePath))]
                  /\ xpc' = [xpc EXCEPT ![c] = "cleanup"]
                  /\ UNCHANGED xresult
    /\ UNCHANGED <<results, analysis, call, proc, promise, resumes>>
    /\ UNCHANGED <<avars, nvars>>

\* variant: the catch swallows the error and extractFromStorage returns an
\* empty text
SCleanup_ContinueOnError(c) ==
    /\ UsesStorage(c)
    /\ xpc[c] = "cleanup"
    /\ \E removed \in BOOLEAN : Unlink(c, removed)
    /\ IF call[c].kind = "extractFromStorage"
       THEN /\ xresult' = [xresult EXCEPT ![c] = Str("")]
            /\ xpc' = [xpc EXCEPT ![c] = "resolved"]
       ELSE /\ xpc' = [xpc EXCEPT ![c] = "analyzing"]
            /\ UNCHANGED xresult
    /\ UNCHANGED <<results, analysis, call, proc, promise, xerror, resumes>>
    /\ UNCHANGED <<avars, nvars>>

\* the unlink of the catch ends, its own failure ignored, and the error held
\* is thrown: to the caller of extractFromStorage, or into the catch of
\* analyzeResumeComplete
SCleanup(c) ==
    /\ UsesStorage(c)
    /\ xpc[c] = "cleanup"
    /\ \E removed \in BOOLEAN : Unlink(c, removed)
    /\ xpc' = [xpc EXCEPT ![c] = "rejected"]
    /\ xerror' = [xerror EXCEPT ![c] = ThrownBy(c, @)]
    /\ UNCHANGED <<results, analysis, call, proc, promise, xresult, resumes>>
    /\ UNCHANGED <<avars, nvars>>

NextExtract ==
    \/ \E c \in Calls : PEntry(c)
    \/ \E c \in Calls : PExtracted(c)
    \/ \E c \in Calls : PUpdated(c)
    \/ \E c \in Calls : SEntry(c)
    \/ \E c \in Calls : SDownloaded(c)
    \/ \E c \in Calls : SDownloadFailed(c)
    \/ \E c \in Calls : SExtracted(c)
    \/ \E c \in Calls : SUnlinked(c)
    \/ \E c \in Calls : SCleanup(c)
    \/ \E c \in Calls : ProcRun(c)
    \/ \E c \in Calls : ProcStartError(c)
    \/ \E c \in Calls : ProcHang(c)

SpecExtract == InitExtract /\ [][NextExtract]_vars

\* Node runs the handler of every event that was emitted and the continuation
\* of every await whose operation has ended; nothing makes a process exit
SpecExtractFair == InitExtract /\ [][NextExtract]_vars /\ WF_vars(NextExtract)

(***************************************************************************)
(* analyzeResumeComplete (download, extraction, analysis, storage) and     *)
(* batchExtractResumes.                                                    *)
(***************************************************************************)
\* what the call analyzeWithOpenAI(resumeText, jobDescription) produces: an
\* analysis object, or an error thrown into the catch
AnalysisOutcomes ==
    { [threw |-> FALSE, message |-> "", value |-> [atsScore |-> 72, matchedKeywords |-> <<"React">>]],
      [threw |-> FALSE, message |-> "", value |-> [atsScore |-> 40, success |-> FALSE]],
      [threw |-> TRUE, message |-> "analyzeWithOpenAI is not defined", value |-> None],
      [threw |-> TRUE, message |-> "Rate limit reached", value |-> None] }

\* the document analyzeResumeComplete adds to 'analyses'
completeDocOf(c, id, t) ==
    [ id             |-> id,
      userId         |-> call[c].auth,
      resumePath     |-> call[c].storagePath,
      resumeText     |-> promise[c].value,
      jobDescription |-> call[c].jobDescription,
      analysis       |-> analysis[c],
      createdAt      |-> t ]

\* analyzeResumeComplete up to its first await: the authentication check,
\* thrown inside the try and so wrapped by the catch, then extractFromStorage
\* starts the download
CEntry(c) ==
    /\ call[c].kind = "analyzeResumeComplete"
    /\ xpc[c] = "called"
    /\ IF call[c].auth = ""
       THEN /\ xerror' = [xerror EXCEPT ![c] = HttpsError("internal", "Login required")]
            /\ xpc' = [xpc EXCEPT ![c] = "rejected"]
       ELSE /\ xpc' = [xpc EXCEPT ![c] = "downloading"]
            /\ UNCHANGED xerror
    /\ UNCHANGED <<results, analysis, call, proc, promise, xresult, files, resumes, unlinks>>
    /\ UNCHANGED <<avars, nvars>>

\* analyzeWithOpenAI settles: the analysis is kept and the add to 'analyses'
\* started, or its error is wrapped by the catch
CAnalyzed(c) ==
    /\ call[c].kind = "analyzeResumeComplete"
    /\ xpc[c] = "analyzing"
    /\ \E o \in AnalysisOutcomes :
          IF o.threw
          THEN /\ xerror' = [xerror EXCEPT ![c] = HttpsError("internal", o.message)]
               /\ xpc' = [xpc EXCEPT ![c] = "rejected"]
               /\ UNCHANGED analysis
          ELSE /\ analysis' = [analysis EXCEPT ![c] = o.value]
               /\ xpc' = [xpc EXCEPT ![c] = "storing"]
               /\ UNCHANGED xerror
    /\ UNCHANGED <<results, call, proc, promise, xresult, files, resumes, unlinks>>
    /\ UNCHANGED <<avars, nvars>>

\* the add to 'analyses' ends: the document is there and the result is
\* returned, or the add failed and the catch wraps its error
CStored(c) ==
    /\ call[c].kind = "analyzeResumeComplete"
    /\ xpc[c] = "storing"
    /\ \E added \in BOOLEAN :
          IF added
          THEN LET id == Len(analyses) + 1
               IN  /\ analyses' = Append(analyses, completeDocOf(c, id, now))
                   /\ xresult' = [xresult EXCEPT ![c] =
                                     \* { success: true, analysisId: resultDoc.id, ...analysis }
                                     analysis[c] @@ [success |-> TRUE, analysisId |-> id]]
                   /\ xpc' = [xpc EXCEPT ![c] = "resolved"]
                   /\ UNCHANGED xerror
          ELSE /\ xerror' = [xerror EXCEPT ![c] =
                                HttpsError("internal", "14 UNAVAILABLE: No connection established")]
               /\ xpc' = [xpc EXCEPT ![c] = "rejected"]
               /\ UNCHANGED <<analyses, xresult>>
    /\ UNCHANGED <<results, analysis, call, proc, promise, files, resumes, unlinks>>
    /\ UNCHANGED <<strategy, request, pc, error, dynamicResult, finalResponse, analysisData, now,
                   completion>>
    /\ UNCHANGED nvars

\* the entry batchExtractResumes pushes for filePath when extractResumeText
\* settled as the promise p
batchResultOf(filePath, p) ==
    IF p.state = "resolved"
    THEN [filePath |-> filePath, success |-> TRUE, text |-> p.value,
          wordCount |-> wordCountOf(p.value)]
    ELSE [filePath |-> filePath, success |-> FALSE, error |-> p.value]

\* the value batchExtractResumes returns
Array(elements) == [t |-> "object", v |-> elements]

\* batchExtractResumes up to its first await: an empty results array, and the
\* first iteration spawns the process; with no path, the array is returned
BEntry(c) ==
    /\ call[c].kind = "batchExtractResumes"
    /\ xpc[c] = "called"
    /\ results' = [results EXCEPT ![c] = <<>>]
    /\ IF call[c].filePaths = <<>>
       THEN /\ xresult' = [xresult EXCEPT ![c] = Array(<<>>)]
            /\ xpc' = [xpc EXCEPT ![c] = "resolved"]
            /\ UNCHANGED <<proc, promise>>
       ELSE /\ proc' = [proc EXCEPT ![c] = Spawned(call[c].filePaths[1])]
            /\ promise' = [promise EXCEPT ![c] = [state |-> "pending", value |-> ""]]
            /\ xpc' = [xpc EXCEPT ![c] = "extracting"]
            /\ UNCHANGED xresult
    /\ UNCHANGED <<analysis, call, xerror, files, resumes, unlinks>>
    /\ UNCHANGED <<avars, nvars>>

\* variant: the first failed extraction rejects the batch
BExtracted_AbortOnFailure(c) ==
    /\ call[c].kind = "batchExtractResumes"
    /\ xpc[c] = "extracting"
    /\ proc[c].state \in {"exited", "error"}
    /\ LET settled == SettledBy(proc[c])
           k       == Len(results[c]) + 1
           pushed  == Append(results[c], batchResultOf(call[c].filePaths[k], settled))
       IN  IF settled.state = "rejected"
           THEN /\ xerror' = [xerror EXCEPT ![c] = Error(settled.value)]
                /\ xpc' = [xpc EXCEPT ![c] = "rejected"]
                /\ promise' = [promise EXCEPT ![c] = settled]
                /\ proc' = [proc EXCEPT ![c] = [@ EXCEPT !.state = "closed"]]
                /\ UNCHANGED <<results, xresult>>
           ELSE /\ results' = [results EXCEPT ![c] = pushed]
                /\ UNCHANGED xerror
                /\ IF k < Len(call[c].filePaths)
                   THEN /\ proc' = [proc EXCEPT ![c] = Spawned(call[c].filePaths[k + 1])]
                        /\ promise' = [promise EXCEPT ![c] = [state |-> "pending", value |-> ""]]
                        /\ UNCHANGED <<xpc, xresult>>
                   ELSE /\ proc' = [proc EXCEPT ![c] = [@ EXCEPT !.state = "closed"]]
                        /\ promise' = [promise EXCEPT ![c] = settled]
                        /\ xresult' = [xresult EXCEPT ![c] = Array(pushed)]
                        /\ xpc' = [xpc EXCEPT ![c] = "resolved"]
    /\ UNCHANGED <<analysis, call, files, resumes, unlinks>>
    /\ UNCHANGED <<avars, nvars>>

\* the event of the process reaches extractResumeText, whose promise settles:
\* the try or the catch pushes the result of this path, and the loop spawns
\* the process of the next path or, after the last, the array is returned
BExtracted(c) ==
    /\ call[c].kind = "batchExtractResumes"
    /\ xpc[c] = "extracting"
    /\ proc[c].state \in {"exited", "error"}
    /\ LET settled == SettledBy(proc[c])
           k       == Len(results[c]) + 1
           pushed  == Append(results[c], batchResultOf(call[c].filePaths[k], settled))
       IN  /\ results' = [results EXCEPT ![c] = pushed]
           /\ IF k < Len(call[c].filePaths)
              THEN /\ proc' = [proc EXCEPT ![c] = Spawned(call[c].filePaths[k + 1])]
                   /\ promise' = [promise EXCEPT ![c] = [state |-> "pending", value |-> ""]]
                   /\ UNCHANGED <<xpc, xresult>>
              ELSE /\ proc' = [proc EXCEPT ![c] = [@ EXCEPT !.state = "closed"]]
                   /\ promise' = [promise EXCEPT ![c] = settled]
                   /\ xresult' = [xresult EXCEPT ![c] = Array(pushed)]
                   /\ xpc' = [xpc EXCEPT ![c] = "resolved"]
    /\ UNCHANGED <<analysis, call, xerror, files, resumes, unlinks>>
    /\ UNCHANGED <<avars, nvars>>

\* the calls of the pipeline: one call of each kind of the extractor, the
\* complete analysis over good, corrupt and missing objects, and batches
PipelineCalls ==
    { ParseCall("u1", Str("/srv/uploads/cv.docx"), Str("res1")),
      StorageCall("resumes/u1/resume.pdf"),
      CompleteCall("", "resumes/u1/resume.pdf", "Wanted: React and Docker engineer"),
      CompleteCall("u1", "resumes/u1/resume.pdf", "Wanted: React and Docker engineer"),
      CompleteCall("u1", "resumes/u1/scan.pdf", "Wanted: React and Docker engineer"),
      CompleteCall("u1", "resumes/u1/gone.pdf", ""),
      BatchCall(<<>>),
      BatchCall(<<"/srv/uploads/none.pdf", "/srv/uploads/cv.docx", "/srv/uploads/cv.docx">>) }

InitPipeline == AnalyzerIdle /\ ExtractorStateOf(Calls, PipelineCalls) /\ NormalizerIdle

NextPipeline ==
    \/ NextExtract
    \/ \E c \in Calls : CEntry(c)
    \/ \E c \in Calls : CAnalyzed(c)
    \/ \E c \in Calls : CStored(c)
    \/ \E c \in Calls : BEntry(c)
    \/ \E c \in Calls : BExtracted(c)

SpecPipeline == InitPipeline /\ [][NextPipeline]_vars

(***************************************************************************)
(* The text normalizer: an extracted text, and the pipeline run on it and  *)
(* then on its own output.                                                 *)
(***************************************************************************)
InitNormalize ==
    /\ AnalyzerIdle
    /\ ExtractorState({})
    /\ ntext \in RawTexts
    /\ npass = 0
    /\ nfirst = ""

\* one run of the pipeline on the text held
Normalize ==
    /\ npass < MaxPasses
    /\ ntext' = normalize(ntext)
    /\ npass' = npass + 1
    /\ nfirst' = IF npass = 0 THEN normalize(ntext) ELSE nfirst
    /\ UNCHANGED <<avars, xvars>>

SpecNormalize == InitNormalize /\ [][Normalize]_vars

(***************************************************************************)
(* Properties of the heuristic analyzeResumeHandler.                       *)
(***************************************************************************)
\* call r was answered by the heuristic handler
HAnswered(r) == strategy = "heuristic" /\ pc[r] = "returned"

resumeTextOf(r) == request[r].data.resumeText.v
jobDescriptionOf(r) == request[r].data.jobDescription.v

\* the presence-based values of call r, recomputed from its resume text
BaseExperience(r) ==
    IF SectionPresent(sections.experience, toLowerCase(resumeTextOf(r))) THEN 25 ELSE 5
BaseSkills(r) ==
    IF SectionPresent(sections.skills, toLowerCase(resumeTextOf(r))) THEN 35 ELSE 10
BaseProjects(r) ==
    IF SectionPresent(sections.projects, toLowerCase(resumeTextOf(r))) THEN 18 ELSE 5

IsInjective(q) == \A i, j \in 1..Len(q) : q[i] = q[j] => i = j

\* position of the first occurrence of x in q
FirstIndex(q, x) == SetMin({i \in 1..Len(q) : q[i] = x})

\* sub, without duplicates, lists some elements of q in the order q has them
KeepsOrderOf(sub, q) ==
    /\ Range(sub) \subseteq Range(q)
    /\ \A i, j \in 1..Len(sub) : i < j => FirstIndex(q, sub[i]) < FirstIndex(q, sub[j])

\* C1: in every answer of the heuristic handler matchedKeywords and
\* missingKeywords partition requiredKeywords: every required keyword is in
\* exactly one of the two lists and neither list holds anything else.
C1_KeywordPartition ==
    \A r \in Reqs : HAnswered(r) =>
        LET f == finalResponse[r]
        IN  /\ Range(f.matchedKeywords) \cup Range(f.missingKeywords) = Range(f.requiredKeywords)
            /\ Range(f.matchedKeywords) \cap Range(f.missingKeywords) = {}
            /\ Len(f.matchedKeywords) + Len(f.missingKeywords) = Len(f.requiredKeywords)

\* an answer in which both lists are non-empty
C1_Witness ==
    \E r \in Reqs : /\ HAnswered(r)
                    /\ Len(finalResponse[r].matchedKeywords) >= 2
                    /\ Len(finalResponse[r].missingKeywords) >= 2

\* C2: in every answer of the heuristic handler 0 <= atsScore <= 98,
\* 0 <= skills <= 40, 0 <= experience <= 30, 0 <= projects <= 20 and
\* 0 <= roleAlignment <= 10.
C2_ScoreBounds ==
    \A r \in Reqs : HAnswered(r) =>
        LET f == finalResponse[r]
        IN  /\ f.atsScore \in 0..98
            /\ f.sectionScores.skills \in 0..40
            /\ f.sectionScores.experience \in 0..30
            /\ f.sectionScores.projects \in 0..20
            /\ f.sectionScores.roleAlignment \in 0..10

\* an answer for a resume with every section and every keyword: the largest scores
C2_Witness ==
    \E r \in Reqs : /\ HAnswered(r)
                    /\ finalResponse[r].atsScore >= 90
                    /\ finalResponse[r].sectionScores.skills >= 32
                    /\ finalResponse[r].sectionScores.roleAlignment = 10

ResultFields ==
    { "atsScore", "requiredKeywords", "matchedKeywords", "missingKeywords", "weakKeywords",
      "sectionScores", "improvementSuggestions", "optimizedBullets" }

SameTexts(r1, r2) ==
    /\ request[r1].data.resumeText = request[r2].data.resumeText
    /\ request[r1].data.jobDescription = request[r2].data.jobDescription

\* C3: two calls of the heuristic handler with the same resumeText and
\* jobDescription get the same atsScore, keyword lists, sectionScores,
\* improvementSuggestions and optimizedBullets, whoever calls, whatever the
\* resumeId, the time, the other calls in flight and the outcome of the save.
C3_Deterministic ==
    \A r1, r2 \in Reqs :
        (HAnswered(r1) /\ HAnswered(r2) /\ SameTexts(r1, r2)) =>
            \A fld \in ResultFields : finalResponse[r1][fld] = finalResponse[r2][fld]

\* two answered calls with the same texts that differ in caller, resumeId,
\* time of the analysis and outcome of the save
C3_Witness ==
    \E r1, r2 \in Reqs :
        /\ HAnswered(r1) /\ HAnswered(r2) /\ SameTexts(r1, r2)
        /\ request[r1].auth # request[r2].auth
        /\ request[r1].data.resumeId # request[r2].data.resumeId
        /\ finalResponse[r1].metadata.analyzedAt # finalResponse[r2].metadata.analyzedAt
        /\ "analysisId" \in DOMAIN finalResponse[r1]
        /\ "analysisId" \notin DOMAIN finalResponse[r2]

\* C4: an authenticated request with string texts is rejected with
\* invalid-argument exactly when the length of resumeText is outside
\* [100, 50000] or the length of jobDescription is outside [50, 20000].
C4_LengthBounds ==
    \A r \in Reqs :
        ( /\ pc[r] \notin {"idle", "called"}
          /\ request[r].auth # ""
          /\ request[r].data.resumeText.t = "string"
          /\ request[r].data.jobDescription.t = "string" ) =>
            ( (pc[r] = "failed" /\ error[r].code = "invalid-argument")
              <=> ( \/ Len(resumeTextOf(r)) \notin 100..50000
                    \/ Len(jobDescriptionOf(r)) \notin 50..20000 ) )

\* C5: when the heuristic handler ends in a validation error, nothing was
\* computed and nothing was stored: no analysis, no response, no record for
\* Firestore and no document in the collection.
C5_ValidationFirst ==
    \A r \in Reqs :
        (strategy = "heuristic" /\ pc[r] = "failed" /\ error[r].code = "invalid-argument") =>
            /\ dynamicResult[r] = None
            /\ finalResponse[r] = None
            /\ analysisData[r] = None
            /\ analyses = <<>>

\* a call with a resume text that is long enough only before trimming, rejected
C5_Witness ==
    \E r \in Reqs : /\ strategy = "heuristic"
                    /\ pc[r] = "failed"
                    /\ error[r].code = "invalid-argument"
                    /\ request[r].data.resumeText.t = "string"
                    /\ Len(resumeTextOf(r)) >= 50

\* C6: atsScore = min(round(keywordScore + 0.6 * baseSectionScore), 98) with
\* keywordScore = 40 * |matched| / |required|, or 20 when no keyword was
\* extracted, and baseSectionScore the sum of the presence-based values and
\* roleAlignment.  With x the unrounded sum and p = |required| (1 when there
\* is no keyword), round(x) = n says n - 1/2 <= x < n + 1/2, stated here
\* multiplied by 10 * p.
C6_FinalScore ==
    \A r \in Reqs : HAnswered(r) =>
        LET f   == finalResponse[r]
            m   == Len(f.matchedKeywords)
            p   == IF Len(f.requiredKeywords) > 0 THEN Len(f.requiredKeywords) ELSE 1
            b   == BaseExperience(r) + BaseSkills(r) + BaseProjects(r)
                       + f.sectionScores.roleAlignment
            x10 == IF Len(f.requiredKeywords) > 0 THEN 400 * m + 6 * b * p ELSE 200 + 6 * b
            Rounds(n) == 10 * p * n - 5 * p <= x10 /\ x10 < 10 * p * n + 5 * p
        IN  \/ f.atsScore < 98 /\ Rounds(f.atsScore)
            \/ f.atsScore = 98 /\ x10 >= 10 * p * 98 - 5 * p

\* an answer without any extracted keyword: 20 + 0.6 * (25 + 35 + 18 + 5) = 69.8
C6_Witness ==
    \E r \in Reqs : /\ HAnswered(r)
                    /\ finalResponse[r].requiredKeywords = <<>>
                    /\ BaseExperience(r) + BaseSkills(r) + BaseProjects(r) = 78
                    /\ finalResponse[r].atsScore = 70

\* C7: the roleAlignment of the answer is 10 when more than 5 required
\* keywords are matched and 5 otherwise.
C7_RoleAlignment ==
    \A r \in Reqs : HAnswered(r) =>
        finalResponse[r].sectionScores.roleAlignment =
            (IF Len(finalResponse[r].matchedKeywords) > 5 THEN 10 ELSE 5)

\* an answer with exactly 5 matched keywords
C7_Witness ==
    \E r \in Reqs : /\ HAnswered(r)
                    /\ Len(finalResponse[r].matchedKeywords) = 5
                    /\ finalResponse[r].sectionScores.roleAlignment = 5

\* C8: weakKeywords is the first two entries of missingKeywords, in order,
\* and the whole list when fewer than two are missing.
C8_WeakKeywords ==
    \A r \in Reqs : HAnswered(r) =>
        LET f == finalResponse[r]
        IN  /\ Len(f.weakKeywords) = Min(2, Len(f.missingKeywords))
            /\ \A i \in 1..Len(f.weakKeywords) : f.weakKeywords[i] = f.missingKeywords[i]
            /\ Range(f.weakKeywords) \cap Range(f.matchedKeywords) = {}

\* an answer with more than two missing keywords
C8_Witness ==
    \E r \in Reqs : /\ HAnswered(r)
                    /\ Len(finalResponse[r].missingKeywords) >= 3
                    /\ Len(finalResponse[r].weakKeywords) = 2

\* C9: requiredKeywords has no duplicates, holds only vocabulary terms that
\* occur in the job description as a word of at least 4 characters (compared
\* without case), in the order of their first occurrence there;
\* matchedKeywords and missingKeywords keep that order.
C9_RequiredKeywords ==
    \A r \in Reqs : HAnswered(r) =>
        LET f     == finalResponse[r]
            req   == LowerCaseAll(f.requiredKeywords)
            words == MatchWords4(toLowerCase(jobDescriptionOf(r)))
        IN  /\ IsInjective(f.requiredKeywords)
            /\ IsInjective(req)
            /\ \A i \in 1..Len(req) :
                  /\ \E k \in 1..Len(commonTechKeywords) :
                        toLowerCase(commonTechKeywords[k]) = req[i]
                  /\ req[i] \in Range(words)
                  /\ Len(req[i]) >= 4
            /\ KeepsOrderOf(req, words)
            /\ KeepsOrderOf(f.matchedKeywords, f.requiredKeywords)
            /\ KeepsOrderOf(f.missingKeywords, f.requiredKeywords)

\* an answer for a job description that repeats keywords, in varying case
C9_Witness ==
    \E r \in Reqs :
        /\ HAnswered(r)
        /\ Len(finalResponse[r].requiredKeywords) >= 4
        /\ LET words == MatchWords4(toLowerCase(jobDescriptionOf(r)))
           IN  \E i, j \in 1..Len(words) :
                  /\ i # j
                  /\ words[i] = words[j]
                  /\ Capitalize(words[i]) \in Range(finalResponse[r].requiredKeywords)
        /\ finalResponse[r].matchedKeywords # <<>>
        /\ Len(finalResponse[r].missingKeywords) >= 2

\* n is an integer nearest to num / 100
NearestTo(n, num) == 100 * n - 50 <= num /\ num <= 100 * n + 50

\* C10: each displayed sub-score for skills, experience and projects is its
\* presence-based value times atsScore / 100 rounded to a nearest integer,
\* and roleAlignment is displayed unscaled (it is 5 or 10, as computed).
C10_ScaledScores ==
    \A r \in Reqs : HAnswered(r) =>
        LET f == finalResponse[r]
        IN  /\ NearestTo(f.sectionScores.skills, BaseSkills(r) * f.atsScore)
            /\ NearestTo(f.sectionScores.experience, BaseExperience(r) * f.atsScore)
            /\ NearestTo(f.sectionScores.projects, BaseProjects(r) * f.atsScore)
            /\ f.sectionScores.roleAlignment = dynamicResult[r].sectionScores.roleAlignment
            /\ f.sectionScores.roleAlignment \in {5, 10}

\* an answer whose skills product is not an integer: 35 * 93 / 100 = 32.55
C10_Witness ==
    \E r \in Reqs : /\ HAnswered(r)
                    /\ finalResponse[r].atsScore = 93
                    /\ BaseSkills(r) = 35
                    /\ finalResponse[r].sectionScores.skills = 33

StartsWith(s, prefix) == Len(s) >= Len(prefix) /\ SubSeq(s, 1, Len(prefix)) = prefix

EndsWith(s, suffix) ==
    Len(s) >= Len(suffix) /\ SubSeq(s, Len(s) - Len(suffix) + 1, Len(s)) = suffix

\* C11: in improvementSuggestions the suggestion to add missing keywords is
\* present only if missingKeywords is not empty, and then names its first
\* three entries; the suggestion to add a Projects section is present
\* exactly when no projects section was detected; the suggestion about the
\* contact information is in every answer.
C11_Suggestions ==
    \A r \in Reqs : HAnswered(r) =>
        LET f      == finalResponse[r]
            s      == f.improvementSuggestions
            prefix == "Increase your score by adding these missing keywords: "
            kw     == {i \in 1..Len(s) : StartsWith(s[i], prefix)}
        IN  /\ kw # {} => f.missingKeywords # <<>>
            /\ \A i \in kw :
                  toLowerCase(s[i]) =
                      toLowerCase(prefix \o join(slice0(f.missingKeywords, 3), ", "))
            /\ ("Add a \"Projects\" section to showcase practical applications of your skills."
                    \in Range(s)) <=> (BaseProjects(r) = 5)
            /\ "Ensure your contact information is at the very top for better parsing."
                    \in Range(s)

\* the resume of call r holds every required keyword of its job description,
\* of which there is at least one, and a header of each of the four sections
PerfectMatch(r) ==
    LET required == potentialKeywordsOf(jdWordsOf(jobDescriptionOf(r)))
        words    == MatchWords4(toLowerCase(resumeTextOf(r)))
        text     == toLowerCase(resumeTextOf(r))
    IN  /\ required # <<>>
        /\ Range(required) \subseteq Range(words)
        /\ \A sec \in {"experience", "skills", "education", "projects"} :
              includes(text, sec)

\* the keyword lists of a perfect match: everything matched, nothing missing
PerfectLists(r) ==
    LET f == finalResponse[r]
    IN  /\ f.matchedKeywords = f.requiredKeywords
        /\ f.missingKeywords = <<>>
        /\ f.weakKeywords = <<>>

\* C12 as stated: a perfect match has matchedKeywords equal to
\* requiredKeywords, empty missingKeywords and weakKeywords, and an atsScore
\* that is the cap of 98 or within a few points (here: 5) of it, for any
\* non-empty number of required keywords.
C12_NearCap ==
    \A r \in Reqs : (HAnswered(r) /\ PerfectMatch(r)) =>
        /\ PerfectLists(r)
        /\ finalResponse[r].atsScore \in 93..98

\* C12, amended: a perfect match has matchedKeywords equal to
\* requiredKeywords, empty missingKeywords and weakKeywords, and an atsScore
\* of 93 when more than 5 keywords are required and of 90 otherwise.
C12_PerfectMatch ==
    \A r \in Reqs : (HAnswered(r) /\ PerfectMatch(r)) =>
        /\ PerfectLists(r)
        /\ finalResponse[r].atsScore =
              (IF Len(finalResponse[r].requiredKeywords) > 5 THEN 93 ELSE 90)

\* a perfect match on 5 required keywords, answered with 90
C12_Witness ==
    \E r \in Reqs : /\ HAnswered(r)
                    /\ PerfectMatch(r)
                    /\ Len(finalResponse[r].requiredKeywords) = 5
                    /\ finalResponse[r].atsScore = 90

\* the response of call r is complete: success, every result field as it was
\* computed, the metadata, and nothing else but possibly analysisId
CompleteResponse(r) ==
    LET f == finalResponse[r]
    IN  /\ IsSome(f)
        /\ DOMAIN f \ {"analysisId"} = ResultFields \cup {"success", "metadata"}
        /\ f.success = TRUE
        /\ \A fld \in ResultFields : f[fld] = dynamicResult[r][fld]
        /\ f.metadata = analysisData[r].metadata

\* a finished heuristic call has either an error and no response, or a
\* complete response and no error
C17_ErrorOrComplete ==
    \A r \in Reqs : strategy = "heuristic" =>
        /\ pc[r] = "failed" => (error[r] # NoError /\ finalResponse[r] = None)
        /\ pc[r] = "returned" => (error[r] = NoError /\ CompleteResponse(r))
        /\ (pc[r] \in {"failed", "returned"} /\ AuthError(request[r]) = NoError
                /\ HeuristicValidationError(request[r].data) = NoError)
              => pc[r] = "returned"

\* the step that ends the save of call r returns the response that was built
\* before the save, whatever the outcome: no error, no field changed, and no
\* analysisId when no document was added
C17_SaveStep ==
    \A r \in Reqs : (pc[r] = "saving" /\ pc'[r] # "saving") =>
        /\ pc'[r] = "returned"
        /\ error'[r] = NoError
        /\ \A fld \in DOMAIN finalResponse[r] :
              /\ fld \in DOMAIN finalResponse'[r]
              /\ finalResponse'[r][fld] = finalResponse[r][fld]
        /\ DOMAIN finalResponse'[r] \ DOMAIN finalResponse[r] \subseteq {"analysisId"}
        /\ analyses' = analyses => "analysisId" \notin DOMAIN finalResponse'[r]

\* C17: the heuristic handler never returns a partial result and does not
\* depend on storage: every authenticated, valid request ends with an error
\* or with a response carrying all result fields, never both, and a failed
\* save raises no error and changes no field of the response; only
\* analysisId is absent then.
C17_NoPartialResult == []C17_ErrorOrComplete /\ [][C17_SaveStep]_vars

\* a complete response returned after a failed save
C17_Witness ==
    \E r \in Reqs : /\ HAnswered(r)
                    /\ analyses = <<>>
                    /\ CompleteResponse(r)
                    /\ "analysisId" \notin DOMAIN finalResponse[r]

\* C18 as stated: whenever a success response is returned, a document for
\* that analysis, with the same atsScore, is in the analyses collection.
C18_EverySuccessSaved ==
    \A r \in Reqs : HAnswered(r) =>
        \E i \in 1..Len(analyses) :
            /\ analyses[i].atsScore = finalResponse[r].atsScore
            /\ analyses[i].metadata = finalResponse[r].metadata

\* C18, amended: whenever a success response is returned with an analysisId,
\* the document of that id is in the analyses collection, belongs to the
\* caller and holds this analysis with the same atsScore; a success response
\* without analysisId is returned when the save failed.
C18_SavedWhenIdentified ==
    \A r \in Reqs : (HAnswered(r) /\ "analysisId" \in DOMAIN finalResponse[r]) =>
        \E i \in 1..Len(analyses) :
            /\ analyses[i].id = finalResponse[r].analysisId
            /\ analyses[i].userId = request[r].auth
            /\ analyses[i].atsScore = finalResponse[r].atsScore
            /\ analyses[i].result = dynamicResult[r]
            /\ analyses[i].metadata = finalResponse[r].metadata

\* a success response with the id of its document
C18_Witness ==
    \E r \in Reqs : /\ HAnswered(r)
                    /\ "analysisId" \in DOMAIN finalResponse[r]
                    /\ Len(analyses) = 1
                    /\ analyses[1].atsScore = 90

\* the name taken from the first line of the resume text of call r
BaseName(r) ==
    LET first == substring0(trim(FirstLine(resumeTextOf(r))), 50)
    IN  IF first = "" THEN "Resume" ELSE first

\* C19: the record handed to storage has isReAnalysis true exactly when the
\* request carried a non-empty resumeId, and then originalResumeId is that
\* resumeId and resumeName ends with " (Edited)"; otherwise isReAnalysis is
\* false, originalResumeId is null and resumeName has no suffix added.
C19_ReAnalysisRecord ==
    \A r \in Reqs : (strategy = "heuristic" /\ IsSome(analysisData[r])) =>
        LET d  == analysisData[r]
            id == request[r].data.resumeId
        IN  /\ d.isReAnalysis <=> (id.t = "string" /\ id.v # "")
            /\ d.isReAnalysis =>
                  /\ d.originalResumeId = id.v
                  /\ EndsWith(d.resumeName, " (Edited)")
                  /\ d.resumeName = BaseName(r) \o " (Edited)"
            /\ ~d.isReAnalysis =>
                  /\ d.originalResumeId = "null"
                  /\ d.resumeName = BaseName(r)
                  /\ ~EndsWith(d.resumeName, " (Edited)")

\* a stored record of a re-analysis
C19_Witness ==
    \E i \in 1..Len(analyses) :
        /\ analyses[i].isReAnalysis
        /\ analyses[i].originalResumeId = "res1"
        /\ EndsWith(analyses[i].resumeName, " (Edited)")

\* the documents carry the ids 1, 2, ... in the order of their addition, and
\* there are as many as calls that were answered with an analysisId, each of
\* which names a document of its own
C20_OnePerCall ==
    /\ \A i \in 1..Len(analyses) : analyses[i].id = i
    /\ \A r \in Reqs :
          (HAnswered(r) /\ "analysisId" \in DOMAIN finalResponse[r]) =>
              finalResponse[r].analysisId \in 1..Len(analyses)
    /\ \A r1, r2 \in Reqs :
          ( /\ HAnswered(r1) /\ "analysisId" \in DOMAIN finalResponse[r1]
            /\ HAnswered(r2) /\ "analysisId" \in DOMAIN finalResponse[r2]
            /\ r1 # r2 ) => finalResponse[r1].analysisId # finalResponse[r2].analysisId
    /\ Len(analyses) =
          Cardinality({r \in Reqs : HAnswered(r) /\ "analysisId" \in DOMAIN finalResponse[r]})

\* a step adds at most one document and leaves every earlier one as it is
C20_AppendOnly ==
    /\ Len(analyses') \in {Len(analyses), Len(analyses) + 1}
    /\ \A i \in 1..Len(analyses) : analyses'[i] = analyses[i]

\* C20: each analysis is stored as a new entry: every call adds at most one
\* document to the analyses collection, and no call modifies or deletes a
\* document written by an earlier call.
C20_NewEntryPerAnalysis == []C20_OnePerCall /\ [][C20_AppendOnly]_vars

\* a second document added after the one of an earlier call, for a re-analysis
C20_Witness ==
    /\ Len(analyses) = 2
    /\ analyses[2].isReAnalysis
    /\ \A r \in Reqs : HAnswered(r) /\ "analysisId" \in DOMAIN finalResponse[r]

\* C24: only authenticated users can run an analysis: a request without an
\* auth context is rejected by analyzeResumeHandler (either implementation)
\* with 'unauthenticated' whatever its payload, before input validation,
\* before any score is computed and before anything is written to Firestore.
C24_AuthFirst ==
    \A r \in Reqs : (pc[r] \notin {"idle", "called"} /\ request[r].auth = "") =>
        /\ pc[r] = "failed"
        /\ error[r].code = "unauthenticated"
        /\ dynamicResult[r] = None
        /\ finalResponse[r] = None
        /\ analysisData[r] = None
        /\ analyses = <<>>

\* an unauthenticated call of the LLM-backed handler whose payload is invalid
\* as well: the error is the one of the authentication check
C24_Witness ==
    \E r \in Reqs : /\ strategy = "llm"
                    /\ pc[r] = "failed"
                    /\ request[r].auth = ""
                    /\ LLMValidationError(request[r].data) # NoError
                    /\ error[r].code = "unauthenticated"

\* C27: for every request the heuristic handler accepts, atsScore is an
\* integer between 15 and 93: the unclamped round(keywordScore + 0.6 *
\* baseSectionScore) never exceeds 93, so the clamp at 98 changes nothing
\* and 98 is never returned.  With x the unrounded sum and p = |required|
\* (1 when there is no keyword), round(x) <= 93 says x < 93.5, stated here
\* multiplied by 10 * p.
C27_ScoreRange ==
    \A r \in Reqs : HAnswered(r) =>
        LET f   == finalResponse[r]
            m   == Len(f.matchedKeywords)
            p   == IF Len(f.requiredKeywords) > 0 THEN Len(f.requiredKeywords) ELSE 1
            b   == BaseExperience(r) + BaseSkills(r) + BaseProjects(r)
                       + f.sectionScores.roleAlignment
            x10 == IF Len(f.requiredKeywords) > 0 THEN 400 * m + 6 * b * p ELSE 200 + 6 * b
        IN  /\ f.atsScore \in 15..93
            /\ x10 < 935 * p
            /\ x10 >= 145 * p

\* the largest score: every section, more than 5 keywords, all matched
C27_Witness ==
    \E r \in Reqs : /\ HAnswered(r)
                    /\ finalResponse[r].atsScore = 93
                    /\ Len(finalResponse[r].matchedKeywords) > 5
                    /\ BaseExperience(r) + BaseSkills(r) + BaseProjects(r) = 78

\* the vocabulary terms that are one word of at least 4 word characters
SingleWordTerms ==
    { "javascript", "react", "python", "java", "cloud", "docker", "kubernetes",
      "typescript", "html", "agile", "devops", "rest", "graphql" }

\* C28: whatever the job description says, requiredKeywords, matchedKeywords
\* and missingKeywords hold only vocabulary terms that are a single word of
\* at least 4 word characters; Node.js, SQL, Git, AWS, CSS, CI/CD, API and
\* Machine Learning are in none of the three lists, even when the job
\* description contains them verbatim.
C28_SingleWordKeywords ==
    \A r \in Reqs : HAnswered(r) =>
        LET f     == finalResponse[r]
            lists == Range(f.requiredKeywords) \cup Range(f.matchedKeywords)
                         \cup Range(f.missingKeywords)
        IN  /\ \A k \in lists : toLowerCase(k) \in SingleWordTerms
            /\ \A k \in lists :
                  toLowerCase(k) \notin {"node.js", "sql", "git", "aws", "css", "ci/cd", "api",
                                         "machine learning"}

\* an answer for a job description that names Node.js, CSS, CI/CD, API and
\* Machine Learning among terms that are extracted
C28_Witness ==
    \E r \in Reqs :
        /\ HAnswered(r)
        /\ \A t \in {"Node.js", "CSS", "CI/CD", "api", "Machine Learning"} :
              includes(jobDescriptionOf(r), t)
        /\ "Html" \in Range(finalResponse[r].requiredKeywords)
        /\ Len(finalResponse[r].requiredKeywords) = 4

\* s with the characters at the positions in covered replaced by "."
RECURSIVE Blanked(_, _, _, _)
Blanked(s, covered, lo, hi) ==
    IF lo > hi THEN ""
    ELSE IF lo = hi THEN (IF lo \in covered THEN "." ELSE CharAt(s, lo))
    ELSE Blanked(s, covered, lo, (lo + hi) \div 2)
             \o Blanked(s, covered, (lo + hi) \div 2 + 1, hi)

\* the resume text without its education synonyms, in whatever case
WithoutEducation(text) ==
    LET lower   == toLowerCase(text)
        n       == Len(text)
        covered == {i \in 1..n :
                      \E k \in 1..Len(sections.education) :
                          LET syn == sections.education[k]
                          IN  \E st \in Max(1, i - Len(syn) + 1)..i :
                                 /\ st + Len(syn) - 1 <= n
                                 /\ SubSeq(lower, st, st + Len(syn) - 1) = syn}
    IN  Blanked(text, covered, 1, n)

\* the resume text with an education header added
WithEducation(text) == text \o "\nEducation"

HasEducation(text) == SectionPresent(sections.education, toLowerCase(text))

\* x and y have the same keyword tokens and the same presence of experience,
\* skills and projects section words, and one of them only has an education
\* synonym
DifferInEducationOnly(x, y) ==
    LET Tokens(t) == {w \in Range(resumeWordsOf(t)) : arrIncludes(commonTechKeywordsLower, w)}
    IN  /\ Tokens(x) = Tokens(y)
        /\ \A sec \in {"experience", "skills", "projects"} :
              SectionPresent(sections[sec], toLowerCase(x))
                  <=> SectionPresent(sections[sec], toLowerCase(y))
        /\ HasEducation(x) # HasEducation(y)

\* C29: the presence of an education section has no effect on the analysis:
\* a resume that differs from the analysed one only in having or not having
\* an education synonym gets the same atsScore, sectionScores, keyword lists
\* and improvementSuggestions for the same job description.
C29_EducationIgnored ==
    \A r \in Reqs : HAnswered(r) =>
        \A y \in {WithoutEducation(resumeTextOf(r)), WithEducation(resumeTextOf(r))} :
            DifferInEducationOnly(resumeTextOf(r), y) =>
                LET other == dynamicResultOf(y, jobDescriptionOf(r))
                IN  \A fld \in {"atsScore", "sectionScores", "requiredKeywords",
                                 "matchedKeywords", "missingKeywords", "weakKeywords",
                                 "improvementSuggestions"} :
                        other[fld] = finalResponse[r][fld]

\* an answer for a resume without experience section to which an education
\* header can be added, nothing else changing
C29_Witness ==
    \E r \in Reqs :
        /\ HAnswered(r)
        /\ ~HasEducation(resumeTextOf(r))
        /\ BaseExperience(r) = 5
        /\ DifferInEducationOnly(resumeTextOf(r), WithEducation(resumeTextOf(r)))

\* the response parses as JSON, has the eight required fields and section
\* scores within the ranges the system prompt asks for
WellShapedResponse(o) ==
    /\ o.kind = "content"
    /\ o.json
    /\ \A k \in 1..Len(requiredFields) : requiredFields[k] \in DOMAIN o.obj
    /\ o.obj.sectionScores.skills \in 0..40
    /\ o.obj.sectionScores.experience \in 0..30
    /\ o.obj.sectionScores.projects \in 0..20
    /\ o.obj.sectionScores.roleAlignment \in 0..10

\* C26: the LLM-backed analyzeResumeHandler accepts every model response
\* that parses as JSON, has the eight required fields and has sectionScores
\* within the ranges it asks the model for, and returns it with success;
\* only responses that violate that shape are rejected.
C26_WellShapedAccepted ==
    \A r \in Reqs :
        (pc[r] \in {"returned", "failed"} /\ completion[r] # None
            /\ WellShapedResponse(completion[r])) =>
            /\ pc[r] = "returned"
            /\ finalResponse[r].success
            /\ finalResponse[r].sectionScores = completion[r].obj.sectionScores

(***************************************************************************)
(* Properties of the resume extractor.                                     *)
(***************************************************************************)
\* call c is a call of extractFromStorage, with its temp path
IsStorageCall(c) == call[c].kind = "extractFromStorage"
TempPath(c) == tempFilePathOf(call[c].storagePath)

\* call c has settled
Settled(c) == xpc[c] \in {"resolved", "rejected"}

\* call d has started and not settled: the temp file it wrote is in use
InFlight(d) == xpc[d] \in {"downloading", "extracting", "unlinking", "cleanup"}

\* the temp file of another call in flight, at the path p
OfAnother(c, p) ==
    /\ files[p] # NoFile
    /\ files[p].by \in Calls \ {c}
    /\ IsStorageCall(files[p].by)
    /\ InFlight(files[p].by)

\* no step of a call of extractFromStorage writes over or removes the temp
\* file of another call in flight, and the process it spawned reads no such
\* file
C13_NoInterference ==
    \A c \in Calls : IsStorageCall(c) =>
        /\ (xpc'[c] # xpc[c] /\ files'[TempPath(c)] # files[TempPath(c)])
              => ~OfAnother(c, TempPath(c))
        /\ (proc[c].state = "running" /\ proc'[c].state = "exited")
              => ~OfAnother(c, TempPath(c))

\* C13: the temp file of extractFromStorage is scoped to a single request:
\* when two calls run concurrently, neither overwrites, reads or deletes the
\* temp file of the other, also when the two storage paths have the same
\* file name in different folders.
C13_TempFileScoped == [][C13_NoInterference]_vars

\* a settled call of extractFromStorage has called unlink, and after a
\* resolution no file written by it is left at its temp path
C14_Released ==
    \A c \in Calls : (IsStorageCall(c) /\ Settled(c)) =>
        /\ unlinks[c] >= 1
        /\ xpc[c] = "resolved" =>
              (files[TempPath(c)] = NoFile \/ files[TempPath(c)].by # c)

\* the step by which a call of extractFromStorage settles is the end of an
\* unlink of its temp file: the file is gone, or the unlink failed and left
\* the file system as it was
C14_SettleStep ==
    \A c \in Calls : (IsStorageCall(c) /\ ~Settled(c) /\ xpc'[c] \in {"resolved", "rejected"}) =>
        /\ unlinks'[c] = unlinks[c] + 1
        /\ files'[TempPath(c)] = NoFile \/ files' = files

\* C14: on every exit path of extractFromStorage (successful extraction,
\* failed download, failed extraction) the deletion of the temp file has
\* been done by the time the promise settles: the file is removed unless
\* the unlink itself failed, and no path settles without having attempted it.
C14_TempFileReleased == []C14_Released /\ [][C14_SettleStep]_vars

\* a call rejected after a failed extraction, its temp file removed by the catch
C14_Witness ==
    \E c \in Calls : /\ IsStorageCall(c)
                     /\ xpc[c] = "rejected"
                     /\ promise[c].state = "rejected"
                     /\ unlinks[c] = 1
                     /\ files[TempPath(c)] = NoFile

\* C15: extraction runs under an enforced timeout: every call of
\* extractResumeText eventually settles (resolves or rejects), also when the
\* spawned process hangs and never closes.
C15_ExtractionSettles ==
    \A c \in Calls :
        (promise[c].state = "pending") ~> (promise[c].state \in {"resolved", "rejected"})

\* C16: when the extraction process fails, the error that reaches the caller
\* of parseResume has a typed kind and a fixed message: the text the process
\* wrote to stderr does not appear in it.
C16_NoStderrLeak ==
    \A c \in Calls :
        ( /\ call[c].kind = "parseResume"
          /\ xpc[c] = "rejected"
          /\ proc[c].state = "closed"
          /\ proc[c].code # 0 ) =>
            /\ xerror[c].code \in {"internal", "invalid-argument", "not-found"}
            /\ proc[c].err # "" => ~includes(xerror[c].message, proc[c].err)


\* C25: an unauthenticated call of parseResume fails with the error code
\* 'unauthenticated' and a call without filePath with 'invalid-argument';
\* in both cases no extraction process is started and nothing is written to
\* Firestore (such a call is rejected at its entry, short of the process
\* and of the update of the resume document).
C25_TypedRejections ==
    \A c \in Calls :
        (call[c].kind = "parseResume" /\ xpc[c] \notin {"idle", "called"}
            /\ (call[c].auth = "" \/ Falsy(call[c].filePath))) =>
            /\ xpc[c] = "rejected"
            /\ xerror[c].code = (IF call[c].auth = "" THEN "unauthenticated"
                                                      ELSE "invalid-argument")
            /\ proc[c] = NoProcess
            /\ unlinks[c] = 0

\* C30: extractFromStorage resolves with the extracted text whenever both
\* the download and the extraction succeeded: a failure to delete the
\* temporary file afterwards neither turns the success into a rejection nor
\* discards the text.
C30_SuccessSurvivesCleanup ==
    \A c \in Calls :
        (IsStorageCall(c) /\ Settled(c) /\ promise[c].state = "resolved") =>
            /\ xpc[c] = "resolved"
            /\ xresult[c] = Str(promise[c].value)

(***************************************************************************)
(* Properties of analyzeResumeComplete and batchExtractResumes.            *)
(***************************************************************************)
IsCompleteCall(c) == call[c].kind = "analyzeResumeComplete"
IsBatchCall(c) == call[c].kind = "batchExtractResumes"

\* the analysis step of call c has been invoked
AnalysisInvoked(c) == xpc[c] \in {"analyzing", "storing"} \/ analysis[c] # None

\* in every state: a call whose extraction failed has invoked no analysis
\* and has no result; the analysis step runs on an extracted text only; and
\* 'analyses' holds one document per call that resolved
C21_NoAnalysisWithoutText ==
    /\ \A c \in Calls :
          (IsCompleteCall(c) /\ (xpc[c] = "cleanup" \/ promise[c].state = "rejected")) =>
              /\ ~AnalysisInvoked(c)
              /\ xpc[c] \in {"cleanup", "rejected"}
              /\ xresult[c] = None
    /\ \A c \in Calls :
          (IsCompleteCall(c) /\ (AnalysisInvoked(c) \/ xpc[c] = "resolved")) =>
              promise[c].state = "resolved"
    /\ Len(analyses) = Cardinality({c \in Calls : IsCompleteCall(c) /\ xpc[c] = "resolved"})

\* in every step: a call that holds the error of its extraction ends with
\* that error, as one 'internal' error, and adds nothing to 'analyses'
C21_HaltStep ==
    \A c \in Calls :
        (IsCompleteCall(c) /\ xpc[c] = "cleanup" /\ xpc'[c] # "cleanup") =>
            /\ xpc'[c] = "rejected"
            /\ xerror'[c] = HttpsError("internal", xerror[c].message)
            /\ xresult'[c] = None
            /\ analysis'[c] = None
            /\ analyses' = analyses

\* C21: when the extraction of the document fails in analyzeResumeComplete
\* the pipeline halts there: the analysis step is never invoked, no document
\* is added to 'analyses', and the caller receives one error and no result.
C21_HaltsOnExtractionFailure == []C21_NoAnalysisWithoutText /\ [][C21_HaltStep]_vars

\* a complete analysis of a corrupt PDF has been rejected with the error of
\* the extraction, and 'analyses' is empty
C21_Witness ==
    \E c \in Calls :
        /\ IsCompleteCall(c)
        /\ call[c].storagePath = "resumes/u1/scan.pdf"
        /\ xpc[c] = "rejected"
        /\ promise[c].state = "rejected"
        /\ xerror[c] = HttpsError("internal", promise[c].value)
        /\ analyses = <<>>

\* in every state: the results pushed so far are those of the first paths,
\* in input order; a batch is never rejected; it returns one result per path
C23_OnePerPathInOrder ==
    \A c \in Calls : IsBatchCall(c) =>
        /\ Len(results[c]) <= Len(call[c].filePaths)
        /\ \A k \in 1..Len(results[c]) :
              /\ results[c][k].filePath = call[c].filePaths[k]
              /\ IF results[c][k].success
                 THEN DOMAIN results[c][k] = {"filePath", "success", "text", "wordCount"}
                 ELSE /\ DOMAIN results[c][k] = {"filePath", "success", "error"}
                      /\ results[c][k].error # ""
        /\ xpc[c] # "rejected"
        /\ xerror[c] = NoError
        /\ xpc[c] = "resolved" =>
              /\ Len(results[c]) = Len(call[c].filePaths)
              /\ xresult[c] = Array(results[c])
        /\ xpc[c] = "extracting" => Len(results[c]) < Len(call[c].filePaths)

\* in every step: a result is pushed when the extraction of its document
\* settles, success with its text exactly when it resolved, and the results
\* of the other documents stay as they are
C23_PushStep ==
    \A c \in Calls : (IsBatchCall(c) /\ xpc[c] = "extracting") =>
        \/ results'[c] = results[c] /\ xpc'[c] = "extracting"
        \/ /\ proc[c].state \in {"exited", "error"}
           /\ Len(results'[c]) = Len(results[c]) + 1
           /\ SubSeq(results'[c], 1, Len(results[c])) = results[c]
           /\ LET entry == results'[c][Len(results'[c])]
                  ended == proc[c]
              IN  IF ended.state = "exited" /\ ended.code = 0
                  THEN entry.success /\ entry.text = extractedTextOf(ended.out)
                  ELSE ~entry.success

\* C23: batchExtractResumes returns exactly one result per input path, in
\* input order, marked success with its text exactly when the extraction of
\* that document resolved and marked failure with an error message
\* otherwise; a failed document neither aborts the batch nor changes the
\* result of another document.
C23_IndependentResults == []C23_OnePerPathInOrder /\ [][C23_PushStep]_vars

\* a batch has returned: its first document failed, the two after it were
\* extracted
C23_Witness ==
    \E c \in Calls :
        /\ IsBatchCall(c)
        /\ xpc[c] = "resolved"
        /\ Len(results[c]) = 3
        /\ ~results[c][1].success
        /\ results[c][2].success
        /\ results[c][3].success
        /\ results[c][3].text = results[c][2].text

(***************************************************************************)
(* Properties of the text normalizer.                                      *)
(***************************************************************************)
\* C22: normalization is idempotent: the five-step pipeline run on its own
\* output returns that output unchanged, for every extracted text.
C22_Idempotent == npass >= 2 => ntext = nfirst

====
